---- MODULE Spec2Model ----
(***************************************************************************)
(* Model of rhub/api/lab/cluster.py: the lab-cluster handlers              *)
(* create_cluster, update_cluster_extra, delete_cluster, reboot_hosts and  *)
(* the host administration handlers, over the storage, identity, job       *)
(* automation and cloud collaborators they call.                           *)
(***************************************************************************)
EXTENDS Integers, Sequences, FiniteSets, TLC

VARIABLES
    region,         \* the lab region row the requests address (read-only input)
    now,            \* date_now(): the clock
    clusters,       \* committed lab_cluster rows
    projects,       \* committed openstack_project rows
    events,         \* committed lab_cluster_event rows, in creation order
    notifications,  \* messages sent on 'lab.cluster.update'
    tower_jobs,     \* jobs launched in Tower (template_launch calls that succeeded)
    deletions,      \* cluster ids handed to lab_utils.delete_cluster
    hosts,          \* committed lab_cluster_host rows
    servers,        \* hostnames of the servers the cloud inventory reports
    reboots,        \* compute.reboot_server calls of the request being answered
    req,            \* create_cluster requests in flight (one per worker)
    last            \* the response of the last handler that returned

vars == <<region, now, clusters, projects, events, notifications, tower_jobs,
          deletions, hosts, servers, reboots, req, last>>

-----------------------------------------------------------------------------
(* Bounds of the model *)

MaxNow == 1             \* the clock runs 0 .. MaxNow
MaxDate == 2            \* dates a payload carries: 1 .. MaxDate
MaxUpdates == 1         \* successful updates (notifications sent)
MaxStatusUpdates == 2   \* successful updates in the status specification
MaxQuotaClusters == 2   \* cluster rows in the quota specification
MaxHosts == 2           \* host ids in the reboot specification
MaxServers == 2         \* servers in the cloud inventory

-----------------------------------------------------------------------------
(* Values *)

Null == -1              \* None / SQL NULL / JSON null

IsoBase == 100          \* a date on the wire is text, not an instant
IsoDate(t) == IsoBase + t
date_parse(s) == s - IsoBase

Without(d, k) == [x \in DOMAIN d \ {k} |-> d[x]]
Has(d, k) == k \in DOMAIN d
Min(a, b) == IF a <= b THEN a ELSE b

\* the keys of the list ks, in order, that are in the set S
SelectKeys(ks, S) == SelectSeq(ks, LAMBDA k : k \in S)

Range(s) == {s[i] : i \in DOMAIN s}

-----------------------------------------------------------------------------
(* Identity provider: auth_model.User rows, roles and group memberships *)

OwnerGroupId == 10          \* the region's owner group
SharedClusterGroupId == 20  \* the group named SHAREDCLUSTER_GROUP
TeamGroupId == 30           \* some other group

LAB_CLUSTER_ADMIN == "lab-cluster-admin"

UserTable == <<
    [name |-> "root",  is_admin |-> TRUE,  roles |-> {},                  groups |-> {}],
    [name |-> "carol", is_admin |-> FALSE, roles |-> {LAB_CLUSTER_ADMIN}, groups |-> {}],
    [name |-> "olga",  is_admin |-> FALSE, roles |-> {},                  groups |-> {OwnerGroupId}],
    [name |-> "sam",   is_admin |-> FALSE, roles |-> {},                  groups |-> {SharedClusterGroupId}],
    [name |-> "alice", is_admin |-> FALSE, roles |-> {},                  groups |-> {TeamGroupId}] >>

Users == DOMAIN UserTable

user_group_ids(user_id) == UserTable[user_id].groups
is_user_in_group(user_id, group_id) == group_id \in UserTable[user_id].groups
get_sharedcluster_group_id == SharedClusterGroupId

-----------------------------------------------------------------------------
(* AccessPolicy *)

user_is_cluster_admin(user_id) ==
    UserTable[user_id].is_admin \/ LAB_CLUSTER_ADMIN \in UserTable[user_id].roles

\* rhub.api.lab.region._user_can_access_region
user_can_access_region(rg, user_id) ==
    \/ user_is_cluster_admin(user_id)
    \/ rg.users_group_id = Null
    \/ rg.users_group_id \in user_group_ids(user_id)
    \/ rg.owner_group_id \in user_group_ids(user_id)

user_can_create_reservation(rg, user_id) ==
    \/ user_is_cluster_admin(user_id)
    \/ rg.reservations_enabled
    \/ rg.owner_group_id \in user_group_ids(user_id)

user_can_set_lifespan(rg, user_id) ==
    \/ user_is_cluster_admin(user_id)
    \/ is_user_in_group(user_id, SharedClusterGroupId)
    \/ rg.owner_group_id \in user_group_ids(user_id)

user_can_disable_expiration(rg, user_id) ==
    \/ user_is_cluster_admin(user_id)
    \/ is_user_in_group(user_id, SharedClusterGroupId)
    \/ rg.owner_group_id \in user_group_ids(user_id)

user_can_create_sharedcluster(user_id) ==
    \/ user_is_cluster_admin(user_id)
    \/ is_user_in_group(user_id, SharedClusterGroupId)

-----------------------------------------------------------------------------
(* ClusterStatus *)

QUEUED == "Queued"
PROVISIONING == "Provisioning"
PROVISIONING_FAILED == "Provisioning Failed"
ACTIVE == "Active"
DELETION_QUEUED == "Deletion Queued"
DELETION_FAILED == "Deletion Failed"
DELETED == "Deleted"
NoStatus == "None"          \* the status column of a row that was never given one

ClusterStatus == {QUEUED, PROVISIONING, PROVISIONING_FAILED, ACTIVE,
                  DELETION_QUEUED, DELETION_FAILED, DELETED}

is_creating(status) == status \in {QUEUED, PROVISIONING}
is_deleting(status) == status \in {DELETION_QUEUED}
is_deleted(status) == status = DELETED

-----------------------------------------------------------------------------
(* Region and Product rows (read-only inputs) *)

RegionId == 1
CloudId == 1                \* region.openstack.id
TowerId == 1                \* region.tower_id
LifespanDelta == 2          \* region.lifespan_delta
ReservationMaxDelta == 1    \* region.reservation_expiration_max(_delta)

QuotaKeys == <<"num_vcpus", "ram_mb", "num_volumes">>
NoQuota == [set |-> FALSE, limits |-> [k \in Range(QuotaKeys) |-> Null]]
UserQuota == [set |-> TRUE,
              limits |-> ("num_vcpus" :> 3) @@ ("ram_mb" :> 4) @@ ("num_volumes" :> Null)]

RegionRow(enabled, users_group_id, reservations_enabled, lifespan_enabled, reservation_expiration_max, user_quota) ==
    [id |-> RegionId, enabled |-> enabled, users_group_id |-> users_group_id,
     reservations_enabled |-> reservations_enabled, owner_group_id |-> OwnerGroupId,
     lifespan_enabled |-> lifespan_enabled, lifespan_delta |-> LifespanDelta,
     reservation_expiration_max |-> reservation_expiration_max,
     openstack_id |-> CloudId, tower_id |-> TowerId, user_quota |-> user_quota]

\* timedelta(days=region.reservation_expiration_max)
reservation_expiration_max_delta(rg) == rg.reservation_expiration_max

\* truthiness of region.reservation_expiration_max
reservation_expiration_max_set(rg) ==
    rg.reservation_expiration_max # Null /\ rg.reservation_expiration_max # 0

MaxNodes == 3               \* the product's schema: 1 <= num_nodes <= MaxNodes

ProductTable == <<
    [enabled |-> TRUE,  has_flavors |-> TRUE,
     parameters_defaults |-> ("num_nodes" :> 1) @@ ("num_volumes" :> 1),
     flavor |-> ("num_vcpus" :> 1) @@ ("ram_mb" :> 2) @@ ("num_volumes" :> 1)],
    [enabled |-> TRUE,  has_flavors |-> FALSE,
     parameters_defaults |-> ("num_nodes" :> 1) @@ ("num_volumes" :> 1),
     flavor |-> ("num_vcpus" :> 0) @@ ("ram_mb" :> 0) @@ ("num_volumes" :> 0)],
    [enabled |-> FALSE, has_flavors |-> TRUE,
     parameters_defaults |-> ("num_nodes" :> 1) @@ ("num_volumes" :> 1),
     flavor |-> ("num_vcpus" :> 1) @@ ("ram_mb" :> 2) @@ ("num_volumes" :> 1)] >>

ProductExists(product_id) == product_id \in DOMAIN ProductTable
is_product_enabled(rg, product_id) == ProductTable[product_id].enabled

\* product.validate_cluster_params raises on a value outside the schema
validate_cluster_params(product_id, params) ==
    params["num_nodes"] \in 1..MaxNodes

\* product.parameters_defaults | body['product_params']
MergeParams(defaults, overrides) ==
    [k \in DOMAIN defaults \cup DOMAIN overrides |->
        IF k \in DOMAIN overrides THEN overrides[k] ELSE defaults[k]]

\* lab_utils.calculate_cluster_usage: the flavor's cost for every node
calculate_cluster_usage(row) ==
    [k \in Range(QuotaKeys) |->
        ProductTable[row.product_id].flavor[k] * row.product_params["num_nodes"]]

-----------------------------------------------------------------------------
(* Storage rows *)

ProjectById(rows, id) == CHOOSE p \in rows : p.id = id
ClusterById(rows, id) == CHOOSE c \in rows : c.id = id

\* Cluster.owner_id and Cluster.group_id are those of the cluster's project
cluster_owner_id(row, prows) == ProjectById(prows, row.project_id).owner_id
cluster_group_id(row, prows) == ProjectById(prows, row.project_id).group_id

NextId(rows) == IF rows = {} THEN 1
                ELSE 1 + CHOOSE m \in {r.id : r \in rows} :
                            \A r \in rows : r.id <= m

RECURSIVE SumUsage(_, _)
SumUsage(rows, k) ==
    IF rows = {} THEN 0
    ELSE LET r == CHOOSE x \in rows : TRUE
         IN calculate_cluster_usage(r)[k] + SumUsage(rows \ {r}, k)

\* region.get_user_quota_usage: the user's non-deleted clusters in the region
get_user_quota_usage(rg, user_id, crows, prows) ==
    [k \in Range(QuotaKeys) |->
        SumUsage({c \in crows : /\ c.region_id = rg.id
                                /\ c.status # DELETED
                                /\ c.status # NoStatus
                                /\ cluster_owner_id(c, prows) = user_id}, k)]

\* the project name f'ql_{user_row.name}'
DefaultProjectName(user_id) == <<"ql_", UserTable[user_id].name>>

-----------------------------------------------------------------------------
(* Responses *)

Problem(code, detail) ==
    [code |-> code, detail |-> detail, exceeded_resources |-> <<>>,
     reservation_expiration_max |-> Null, rebooted_hosts |-> <<>>]

Passed == Problem(200, "ok")

\* what a handler answered to which request: the principal, the cluster, the
\* payload's keys and shared flag, the problem (or success) with its extension
\* data, and what the handler left flushed but uncommitted in its session
Response(op, user, cluster_id, keys, shared, problem, dirty) ==
    [op |-> op, user |-> user, cluster_id |-> cluster_id, keys |-> keys,
     shared |-> shared, code |-> problem.code, detail |-> problem.detail,
     exceeded_resources |-> problem.exceeded_resources,
     reservation_expiration_max |-> problem.reservation_expiration_max,
     rebooted_hosts |-> problem.rebooted_hosts,
     dirty |-> dirty]

NoResponse == Response("none", Null, Null, {}, FALSE, Problem(0, ""), {})

-----------------------------------------------------------------------------
(* create_cluster *)

Get(d, k) == IF k \in DOMAIN d THEN d[k] ELSE Null

\* variant: a cluster may be created in a region that is disabled
CreateGate_DisabledRegionAllowed(body, user, crows) ==
    IF body["region_id"] # region.id THEN Problem(404, "region not found")
    ELSE IF ~user_can_access_region(region, user) THEN Problem(403, "region access")
    ELSE IF ~user_can_create_reservation(region, user)
         THEN Problem(403, "reservations disabled")
    ELSE IF \E c \in crows : c.name = body["name"] /\ c.status # DELETED
         THEN Problem(400, "name exists")
    ELSE IF ~ProductExists(body["product_id"]) THEN Problem(404, "product not found")
    ELSE IF ~is_product_enabled(region, body["product_id"])
         THEN Problem(400, "product disabled")
    ELSE Passed

\* region, access, name and product gates
CreateGate(body, user, crows) ==
    IF body["region_id"] # region.id THEN Problem(404, "region not found")
    ELSE IF ~user_can_access_region(region, user) THEN Problem(403, "region access")
    ELSE IF ~region.enabled THEN Problem(403, "region disabled")
    ELSE IF ~user_can_create_reservation(region, user)
         THEN Problem(403, "reservations disabled")
    ELSE IF \E c \in crows : c.name = body["name"] /\ c.status # DELETED
         THEN Problem(400, "name exists")
    ELSE IF ~ProductExists(body["product_id"]) THEN Problem(404, "product not found")
    ELSE IF ~is_product_enabled(region, body["product_id"])
         THEN Problem(400, "product disabled")
    ELSE Passed

\* variant: the payload's lifespan is taken whether or not the region enables lifespans
CreateLifespan_RegionIgnored(cd, created) ==
    IF Has(cd, "lifespan_expiration")
    THEN IF cd["lifespan_expiration"] # Null
         THEN date_parse(cd["lifespan_expiration"])
         ELSE Null
    ELSE IF region.lifespan_enabled THEN created + region.lifespan_delta ELSE Null

\* variant: the default lifespan counts from the epoch, not from created
CreateLifespan_DeltaOnly(cd, created) ==
    IF region.lifespan_enabled
    THEN IF Has(cd, "lifespan_expiration")
         THEN IF cd["lifespan_expiration"] # Null
              THEN date_parse(cd["lifespan_expiration"])
              ELSE Null
         ELSE region.lifespan_delta
    ELSE Null

\* the lifespan a new cluster gets
CreateLifespan(cd, created) ==
    IF region.lifespan_enabled
    THEN IF Has(cd, "lifespan_expiration")
         THEN IF cd["lifespan_expiration"] # Null
              THEN date_parse(cd["lifespan_expiration"])
              ELSE Null
         ELSE created + region.lifespan_delta
    ELSE Null

\* variant: the expirations of the payload are kept for a shared cluster
CreateExpiration_SharedKeepsDates(body, user, created) ==
    LET shared == IF Has(body, "shared") THEN body["shared"] ELSE FALSE
        cd2 == ("created" :> created) @@ Without(body, "shared")
        lifespan == CreateLifespan(cd2, created)
        reservation_expiration ==
            IF Get(cd2, "reservation_expiration") # Null
            THEN date_parse(cd2["reservation_expiration"])
            ELSE Null
        reservation_expiration_max == created + reservation_expiration_max_delta(region)
        cd3 == ("lifespan_expiration" :> lifespan)
               @@ ("reservation_expiration" :> reservation_expiration) @@ cd2
        Reject(p) == [problem |-> p, data |-> cd3, shared |-> shared]
    IN  IF shared /\ ~user_can_create_sharedcluster(user)
        THEN Reject(Problem(404, "shared forbidden"))
        ELSE IF /\ region.lifespan_enabled
                /\ Has(cd2, "lifespan_expiration")
                /\ ~user_can_set_lifespan(region, user)
        THEN Reject(Problem(403, "lifespan forbidden"))
        ELSE IF /\ reservation_expiration_max_set(region)
                /\ reservation_expiration = Null
                /\ ~user_can_disable_expiration(region, user)
        THEN Reject(Problem(403, "no expiration forbidden"))
        ELSE IF /\ reservation_expiration_max_set(region)
                /\ reservation_expiration # Null
                /\ reservation_expiration > reservation_expiration_max
        THEN Reject([Problem(403, "exceeded reservation") EXCEPT
                        !.reservation_expiration_max = reservation_expiration_max])
        ELSE Reject(Passed)

\* the shared flag and both expirations
CreateExpiration(body, user, created) ==
    LET shared == IF Has(body, "shared") THEN body["shared"] ELSE FALSE
        cd1 == ("created" :> created) @@ Without(body, "shared")
        cd2 == IF shared
               THEN ("lifespan_expiration" :> Null)
                    @@ ("reservation_expiration" :> Null) @@ cd1
               ELSE cd1
        lifespan == CreateLifespan(cd2, created)
        reservation_expiration ==
            IF Get(cd2, "reservation_expiration") # Null
            THEN date_parse(cd2["reservation_expiration"])
            ELSE Null
        reservation_expiration_max == created + reservation_expiration_max_delta(region)
        cd3 == ("lifespan_expiration" :> lifespan)
               @@ ("reservation_expiration" :> reservation_expiration) @@ cd2
        Reject(p) == [problem |-> p, data |-> cd3, shared |-> shared]
    IN  IF shared /\ ~user_can_create_sharedcluster(user)
        THEN Reject(Problem(404, "shared forbidden"))
        ELSE IF /\ region.lifespan_enabled
                /\ Has(cd2, "lifespan_expiration")
                /\ ~user_can_set_lifespan(region, user)
        THEN Reject(Problem(403, "lifespan forbidden"))
        ELSE IF /\ reservation_expiration_max_set(region)
                /\ reservation_expiration = Null
                /\ ~user_can_disable_expiration(region, user)
        THEN Reject(Problem(403, "no expiration forbidden"))
        ELSE IF /\ reservation_expiration_max_set(region)
                /\ reservation_expiration # Null
                /\ reservation_expiration > reservation_expiration_max
        THEN Reject([Problem(403, "exceeded reservation") EXCEPT
                        !.reservation_expiration_max = reservation_expiration_max])
        ELSE Reject(Passed)

\* the rows the default-project query matches
DefaultProjectMatches(user, prows) ==
    {p \in prows : p.cloud_id = region.openstack_id /\ p.name = DefaultProjectName(user)}

\* what first() may return for the default-project query
FirstChoices(user, prows) ==
    IF DefaultProjectMatches(user, prows) = {} THEN {Null}
    ELSE {p.id : p \in DefaultProjectMatches(user, prows)}

\* the explicit project, or the user's default project, created when the query finds none
ResolveProject(cd, user, shared, prows, first, new_id) ==
    LET Answer(p, id, created) == [problem |-> p, project_id |-> id, created |-> created]
    IN  IF Has(cd, "project_id")
        THEN IF ~\E p \in prows : p.id = cd["project_id"]
             THEN Answer(Problem(404, "project not found"), Null, {})
             ELSE IF ProjectById(prows, cd["project_id"]).cloud_id # region.openstack_id
             THEN Answer(Problem(400, "project cloud"), Null, {})
             ELSE IF /\ ProjectById(prows, cd["project_id"]).owner_id # user
                     /\ ~user_is_cluster_admin(user)
             THEN Answer(Problem(403, "project owner"), Null, {})
             ELSE Answer(Passed, cd["project_id"], {})
        ELSE IF DefaultProjectMatches(user, prows) # {}
             THEN Answer(Passed, first, {})
             ELSE Answer(Passed, new_id,
                         {[id |-> new_id, cloud_id |-> region.openstack_id,
                           name |-> DefaultProjectName(user), owner_id |-> user,
                           group_id |-> IF shared THEN get_sharedcluster_group_id
                                        ELSE Null]})

\* model.Cluster.from_dict(cluster_data), flushed
FromDict(cd, id) ==
    [id |-> id, name |-> cd["name"], region_id |-> cd["region_id"],
     product_id |-> cd["product_id"], project_id |-> cd["project_id"],
     status |-> NoStatus, created |-> cd["created"],
     lifespan_expiration |-> cd["lifespan_expiration"],
     reservation_expiration |-> cd["reservation_expiration"],
     product_params |-> cd["product_params"],
     description |-> IF Has(cd, "description") THEN cd["description"] ELSE ""]

\* variant: the check stops at the first field over its limit
ExceededResources_FirstOnly(user_quota, user_quota_usage, cluster_usage) ==
    LET all == SelectKeys(QuotaKeys,
                   {k \in DOMAIN user_quota :
                       /\ user_quota[k] # Null
                       /\ (user_quota_usage[k] + cluster_usage[k]) > user_quota[k]})
    IN  IF all = <<>> THEN all ELSE <<Head(all)>>

\* the quota fields the new cluster would push over their limit
ExceededResources(user_quota, user_quota_usage, cluster_usage) ==
    SelectKeys(QuotaKeys,
               {k \in DOMAIN user_quota :
                   /\ user_quota[k] # Null
                   /\ (user_quota_usage[k] + cluster_usage[k]) > user_quota[k]})

\* variant: a failure of the usage computation is answered without a rollback
ValidateAndQuota_UsageNotRolledBack(row, shared, user, crows, prows, usage_ok) ==
    LET Answer(p, rb) == [problem |-> p, rollback |-> rb]
        exceeded_resources ==
            ExceededResources(region.user_quota.limits,
                              get_user_quota_usage(region, user, crows, prows),
                              calculate_cluster_usage(row))
    IN  IF ~shared /\ ~validate_cluster_params(row.product_id, row.product_params)
        THEN Answer(Problem(400, "invalid params"), TRUE)
        ELSE IF /\ region.user_quota.set
                /\ ProductTable[row.product_id].has_flavors
                /\ ~shared
        THEN IF ~usage_ok THEN Answer(Problem(500, "usage failed"), FALSE)
             ELSE IF exceeded_resources # <<>>
             THEN Answer([Problem(400, "quota exceeded") EXCEPT
                             !.exceeded_resources = exceeded_resources], FALSE)
             ELSE Answer(Passed, FALSE)
        ELSE Answer(Passed, FALSE)

\* product-parameter validation and the quota check; rollback says whether the
\* branch taken calls db.session.rollback()
ValidateAndQuota(row, shared, user, crows, prows, usage_ok) ==
    LET Answer(p, rb) == [problem |-> p, rollback |-> rb]
        exceeded_resources ==
            ExceededResources(region.user_quota.limits,
                              get_user_quota_usage(region, user, crows, prows),
                              calculate_cluster_usage(row))
    IN  IF ~shared /\ ~validate_cluster_params(row.product_id, row.product_params)
        THEN Answer(Problem(400, "invalid params"), TRUE)
        ELSE IF /\ region.user_quota.set
                /\ ProductTable[row.product_id].has_flavors
                /\ ~shared
        THEN IF ~usage_ok THEN Answer(Problem(500, "usage failed"), TRUE)
             ELSE IF exceeded_resources # <<>>
             THEN Answer([Problem(400, "quota exceeded") EXCEPT
                             !.exceeded_resources = exceeded_resources], FALSE)
             ELSE Answer(Passed, FALSE)
        ELSE Answer(Passed, FALSE)

TowerOutcomes == {"ok", "template_get fails", "template_launch fails"}

\* variant: the event does not carry the id of the job
ClusterTowerJobEvent_NoJobId(cluster_id, user, date, tower_id, tower_job_id, status) ==
    [type |-> "tower_job", cluster_id |-> cluster_id, user_id |-> user, date |-> date,
     tower_id |-> tower_id, tower_job_id |-> Null, status |-> status,
     old_value |-> Null, new_value |-> Null]

ClusterTowerJobEvent(cluster_id, user, date, tower_id, tower_job_id, status) ==
    [type |-> "tower_job", cluster_id |-> cluster_id, user_id |-> user, date |-> date,
     tower_id |-> tower_id, tower_job_id |-> tower_job_id, status |-> status,
     old_value |-> Null, new_value |-> Null]

\* the whole request against the rows it can see: what it answers, what it
\* leaves flushed but uncommitted in its session, and what it commits
CreateRun(body, user, crows, prows, first, from_dict_ok, usage_ok, tower) ==
    LET gate == CreateGate(body, user, crows)
        exp == CreateExpiration(body, user, now)
        cd == ("product_params" :>
                  MergeParams(ProductTable[body["product_id"]].parameters_defaults,
                              body["product_params"])) @@ exp.data
        proj == ResolveProject(cd, user, exp.shared, prows, first, NextId(prows))
        row == FromDict(("project_id" :> proj.project_id) @@ cd, NextId(crows))
        val == ValidateAndQuota(row, exp.shared, user, crows, prows \cup proj.created,
                                usage_ok)
        pdirty == IF proj.created = {} THEN {} ELSE {"project"}
        Out(p, dirty, commit) ==
            [problem |-> p, dirty |-> dirty, commit |-> commit,
             cluster_id |-> IF commit THEN row.id ELSE Null,
             projects |-> IF commit THEN proj.created ELSE {},
             clusters |-> IF commit THEN {[row EXCEPT !.status = QUEUED]} ELSE {},
             events |-> IF commit
                        THEN <<ClusterTowerJobEvent(row.id, user, now, region.tower_id,
                                                    tower_jobs + 1, QUEUED)>>
                        ELSE <<>>]
    IN  IF gate.code # 200 THEN Out(gate, {}, FALSE)
        ELSE IF exp.problem.code # 200 THEN Out(exp.problem, {}, FALSE)
        ELSE IF proj.problem.code # 200 THEN Out(proj.problem, {}, FALSE)
        ELSE IF ~from_dict_ok THEN Out(Problem(400, "from_dict failed"), pdirty, FALSE)
        ELSE IF val.problem.code # 200
        THEN Out(val.problem,
                 IF val.rollback THEN {} ELSE pdirty \cup {"cluster"}, FALSE)
        ELSE IF tower # "ok" THEN Out(Problem(500, "tower failed"), {}, FALSE)
        ELSE Out(Passed, {}, TRUE)

create_cluster(body, user, first, from_dict_ok, usage_ok, tower, max_clusters) ==
    LET run == CreateRun(body, user, clusters, projects, first,
                         from_dict_ok, usage_ok, tower)
    IN  /\ last = NoResponse
        /\ Cardinality(clusters) < max_clusters
        /\ clusters' = clusters \cup run.clusters
        /\ projects' = projects \cup run.projects
        /\ events' = events \o run.events
        /\ tower_jobs' = IF run.commit THEN tower_jobs + 1 ELSE tower_jobs
        /\ last' = Response("create", user, run.cluster_id, DOMAIN body,
                            Has(body, "shared") /\ body["shared"],
                            run.problem, run.dirty)
        /\ UNCHANGED <<region, now, notifications, deletions, hosts, servers,
                       reboots, req>>

-----------------------------------------------------------------------------
(* update_cluster_extra *)

user_can_access_cluster(row, prows, user_id) ==
    \/ user_is_cluster_admin(user_id)
    \/ cluster_owner_id(row, prows) = user_id
    \/ /\ cluster_group_id(row, prows) # Null
       /\ cluster_group_id(row, prows) \in user_group_ids(user_id)

ImmutableKeys == <<"name", "region_id", "product_id", "product_params">>

ClusterLifespanChangeEvent(cluster_id, user, date, old_value, new_value) ==
    [type |-> "lifespan_change", cluster_id |-> cluster_id, user_id |-> user,
     date |-> date, tower_id |-> Null, tower_job_id |-> Null, status |-> NoStatus,
     old_value |-> old_value, new_value |-> new_value]

ClusterReservationChangeEvent(cluster_id, user, date, old_value, new_value) ==
    [type |-> "reservation_change", cluster_id |-> cluster_id, user_id |-> user,
     date |-> date, tower_id |-> Null, tower_job_id |-> Null, status |-> NoStatus,
     old_value |-> old_value, new_value |-> new_value]

\* cluster.update_from_dict(cluster_data)
update_from_dict(row, cd) ==
    [f \in DOMAIN row |-> IF f \in DOMAIN cd THEN cd[f] ELSE row[f]]

\* the lifespan branch: the payload it leaves, the event it adds
UpdateLifespan(cluster, cd, user) ==
    LET Answer(p, data, evs) == [problem |-> p, data |-> data, events |-> evs]
        parsed == IF cd["lifespan_expiration"] # Null
                  THEN ("lifespan_expiration" :> date_parse(cd["lifespan_expiration"])) @@ cd
                  ELSE cd
    IN  IF ~Has(cd, "lifespan_expiration") THEN Answer(Passed, cd, <<>>)
        ELSE IF region.lifespan_enabled
        THEN IF user_can_set_lifespan(region, user)
             THEN Answer(Passed, parsed,
                         <<ClusterLifespanChangeEvent(cluster.id, user, now,
                                cluster.lifespan_expiration,
                                parsed["lifespan_expiration"])>>)
             ELSE Answer(Problem(403, "lifespan forbidden"), cd, <<>>)
        \* del cluster_data['lifespan_expiration'], then the event reads that key
        ELSE Answer(Problem(500, "KeyError lifespan_expiration"),
                    Without(cd, "lifespan_expiration"), <<>>)

\* variant: the cap is not reduced to the cluster's lifespan
UpdateReservation_LifespanIgnored(cluster, cd, user) ==
    LET Answer(p, data, evs) == [problem |-> p, data |-> data, events |-> evs]
        reservation_expiration == date_parse(cd["reservation_expiration"])
        parsed == ("reservation_expiration" :> reservation_expiration) @@ cd
        base == IF cluster.reservation_expiration # Null
                THEN cluster.reservation_expiration ELSE now
        reservation_expiration_max == base + reservation_expiration_max_delta(region)
        Event(data) == <<ClusterReservationChangeEvent(cluster.id, user, now,
                              cluster.reservation_expiration,
                              data["reservation_expiration"])>>
    IN  IF ~Has(cd, "reservation_expiration") THEN Answer(Passed, cd, <<>>)
        ELSE IF cd["reservation_expiration"] = Null
        THEN IF ~user_can_disable_expiration(region, user)
             THEN Answer(Problem(403, "no expiration forbidden"), cd, <<>>)
             ELSE Answer(Passed, cd, Event(cd))
        ELSE IF /\ reservation_expiration_max_set(region)
                /\ reservation_expiration > reservation_expiration_max
        THEN Answer([Problem(403, "exceeded reservation") EXCEPT
                        !.reservation_expiration_max = reservation_expiration_max],
                    parsed, <<>>)
        ELSE Answer(Passed, parsed, Event(parsed))

\* variant: no event is added when the reservation does not change
UpdateReservation_SilentWhenUnchanged(cluster, cd, user) ==
    LET Answer(p, data, evs) == [problem |-> p, data |-> data, events |-> evs]
        reservation_expiration == date_parse(cd["reservation_expiration"])
        parsed == ("reservation_expiration" :> reservation_expiration) @@ cd
        base == IF cluster.reservation_expiration # Null
                THEN cluster.reservation_expiration ELSE now
        uncapped == base + reservation_expiration_max_delta(region)
        reservation_expiration_max ==
            IF cluster.lifespan_expiration # Null
            THEN Min(uncapped, cluster.lifespan_expiration)
            ELSE uncapped
        Event(data) ==
            IF data["reservation_expiration"] = cluster.reservation_expiration
            THEN <<>>
            ELSE <<ClusterReservationChangeEvent(cluster.id, user, now,
                        cluster.reservation_expiration,
                        data["reservation_expiration"])>>
    IN  IF ~Has(cd, "reservation_expiration") THEN Answer(Passed, cd, <<>>)
        ELSE IF cd["reservation_expiration"] = Null
        THEN IF ~user_can_disable_expiration(region, user)
             THEN Answer(Problem(403, "no expiration forbidden"), cd, <<>>)
             ELSE Answer(Passed, cd, Event(cd))
        ELSE IF /\ reservation_expiration_max_set(region)
                /\ reservation_expiration > reservation_expiration_max
        THEN Answer([Problem(403, "exceeded reservation") EXCEPT
                        !.reservation_expiration_max = reservation_expiration_max],
                    parsed, <<>>)
        ELSE Answer(Passed, parsed, Event(parsed))

\* the reservation branch
UpdateReservation(cluster, cd, user) ==
    LET Answer(p, data, evs) == [problem |-> p, data |-> data, events |-> evs]
        reservation_expiration == date_parse(cd["reservation_expiration"])
        parsed == ("reservation_expiration" :> reservation_expiration) @@ cd
        base == IF cluster.reservation_expiration # Null
                THEN cluster.reservation_expiration ELSE now
        uncapped == base + reservation_expiration_max_delta(region)
        reservation_expiration_max ==
            IF cluster.lifespan_expiration # Null
            THEN Min(uncapped, cluster.lifespan_expiration)
            ELSE uncapped
        Event(data) == <<ClusterReservationChangeEvent(cluster.id, user, now,
                              cluster.reservation_expiration,
                              data["reservation_expiration"])>>
    IN  IF ~Has(cd, "reservation_expiration") THEN Answer(Passed, cd, <<>>)
        ELSE IF cd["reservation_expiration"] = Null
        THEN IF ~user_can_disable_expiration(region, user)
             THEN Answer(Problem(403, "no expiration forbidden"), cd, <<>>)
             ELSE Answer(Passed, cd, Event(cd))
        ELSE IF /\ reservation_expiration_max_set(region)
                /\ reservation_expiration > reservation_expiration_max
        THEN Answer([Problem(403, "exceeded reservation") EXCEPT
                        !.reservation_expiration_max = reservation_expiration_max],
                    parsed, <<>>)
        ELSE Answer(Passed, parsed, Event(parsed))

\* variant: any principal with access may set the status
UpdateStatus_AdminNotRequired(cluster, cd, tower_job_id, user) ==
    IF ~Has(cd, "status") THEN [problem |-> Passed, events |-> <<>>]
    ELSE [problem |-> Passed,
          events |-> <<ClusterTowerJobEvent(cluster.id, user, now,
                          IF tower_job_id # Null THEN region.tower_id ELSE Null,
                          tower_job_id, cd["status"])>>]

\* the status branch
UpdateStatus(cluster, cd, tower_job_id, user) ==
    LET Answer(p, evs) == [problem |-> p, events |-> evs]
    IN  IF ~Has(cd, "status") THEN Answer(Passed, <<>>)
        ELSE IF ~user_is_cluster_admin(user)
        THEN Answer(Problem(403, "status forbidden"), <<>>)
        ELSE Answer(Passed,
                    <<ClusterTowerJobEvent(cluster.id, user, now,
                          IF tower_job_id # Null THEN region.tower_id ELSE Null,
                          tower_job_id, cd["status"])>>)

FirstImmutable(cd) == SelectKeys(ImmutableKeys, DOMAIN cd)

\* variant: the gate does not look at the cluster's status
UpdateGate_DeletedIgnored(cluster, cluster_data, prows, user) ==
    IF ~user_can_access_cluster(cluster, prows, user)
    THEN Problem(403, "cluster access")
    ELSE IF FirstImmutable(cluster_data) # <<>> THEN Problem(400, "immutable field")
    ELSE Passed

\* variant: the payload's keys are not looked at
UpdateGate_ImmutableIgnored(cluster, cluster_data, prows, user) ==
    IF ~user_can_access_cluster(cluster, prows, user)
    THEN Problem(403, "cluster access")
    ELSE IF is_deleted(cluster.status) THEN Problem(400, "cluster deleted")
    ELSE Passed

\* access, deleted and immutable-field gates
UpdateGate(cluster, cluster_data, prows, user) ==
    IF ~user_can_access_cluster(cluster, prows, user)
    THEN Problem(403, "cluster access")
    ELSE IF is_deleted(cluster.status) THEN Problem(400, "cluster deleted")
    ELSE IF FirstImmutable(cluster_data) # <<>> THEN Problem(400, "immutable field")
    ELSE Passed

\* variant: the events added before a rejection reach storage
UpdateRun_PendingKept(cluster_id, cluster_data, tower_job_id, user, crows, prows) ==
    LET cluster == ClusterById(crows, cluster_id)
        gate == UpdateGate(cluster, cluster_data, prows, user)
        ls == UpdateLifespan(cluster, cluster_data, user)
        rs == UpdateReservation(cluster, ls.data, user)
        st == UpdateStatus(cluster, rs.data, tower_job_id, user)
        Out(p, evs, commit) ==
            [problem |-> p, dirty |-> {}, commit |-> commit,
             row |-> IF commit THEN update_from_dict(cluster, rs.data) ELSE cluster,
             events |-> evs]
    IN  IF ~\E c \in crows : c.id = cluster_id
        THEN [problem |-> Problem(404, "cluster not found"), dirty |-> {},
              commit |-> FALSE, row |-> Null, events |-> <<>>]
        ELSE IF gate.code # 200 THEN Out(gate, <<>>, FALSE)
        ELSE IF ls.problem.code # 200 THEN Out(ls.problem, <<>>, FALSE)
        ELSE IF rs.problem.code # 200 THEN Out(rs.problem, ls.events, FALSE)
        ELSE IF st.problem.code # 200
        THEN Out(st.problem, ls.events \o rs.events, FALSE)
        ELSE Out(Passed, ls.events \o rs.events \o st.events, TRUE)

\* the whole request against the rows it can see: the events added to the
\* session reach storage with the commit of line 597 and not otherwise
UpdateRun(cluster_id, cluster_data, tower_job_id, user, crows, prows) ==
    LET cluster == ClusterById(crows, cluster_id)
        gate == UpdateGate(cluster, cluster_data, prows, user)
        ls == UpdateLifespan(cluster, cluster_data, user)
        rs == UpdateReservation(cluster, ls.data, user)
        st == UpdateStatus(cluster, rs.data, tower_job_id, user)
        Dirty(evs) == IF evs = <<>> THEN {} ELSE {"event"}
        Out(p, dirty, commit) ==
            [problem |-> p, dirty |-> dirty, commit |-> commit,
             row |-> IF commit THEN update_from_dict(cluster, rs.data) ELSE cluster,
             events |-> IF commit THEN ls.events \o rs.events \o st.events ELSE <<>>]
    IN  IF ~\E c \in crows : c.id = cluster_id
        THEN [problem |-> Problem(404, "cluster not found"), dirty |-> {},
              commit |-> FALSE, row |-> Null, events |-> <<>>]
        ELSE IF gate.code # 200 THEN Out(gate, {}, FALSE)
        ELSE IF ls.problem.code # 200 THEN Out(ls.problem, {}, FALSE)
        ELSE IF rs.problem.code # 200 THEN Out(rs.problem, Dirty(ls.events), FALSE)
        ELSE IF st.problem.code # 200
        THEN Out(st.problem, Dirty(ls.events \o rs.events), FALSE)
        ELSE Out(Passed, {}, TRUE)

Notification(cluster, cluster_data, tower_job_id) ==
    [topic |-> "lab.cluster.update", cluster_id |-> cluster.id,
     cluster_name |-> cluster.name, update_data |-> cluster_data,
     tower_job_id |-> tower_job_id]

\* variant: the message is sent before the commit is made
messaging_send_BeforeCommit(sent, reached, commit_ok, message) ==
    IF reached THEN Append(sent, message) ELSE sent

\* messaging.send, the statement after db.session.commit(): a request that did
\* not reach the commit, or whose commit raised, does not get to it
messaging_send(sent, reached, commit_ok, message) ==
    IF reached /\ commit_ok THEN Append(sent, message) ELSE sent

\* commit_ok: whether db.session.commit() returns (it raises otherwise)
update_cluster_extra(cluster_id, cluster_data, tower_job_id, user, max_updates, commit_ok) ==
    LET reached == UpdateRun(cluster_id, cluster_data, tower_job_id, user,
                             clusters, projects)
        run == IF reached.commit /\ ~commit_ok
               THEN [problem |-> Problem(500, "commit failed"), dirty |-> {},
                     commit |-> FALSE, row |-> ClusterById(clusters, cluster_id),
                     events |-> <<>>]
               ELSE reached
    IN  /\ last = NoResponse
        /\ reached.commit => Len(notifications) < max_updates
        /\ clusters' = IF run.commit
                       THEN (clusters \ {ClusterById(clusters, cluster_id)})
                            \cup {run.row}
                       ELSE clusters
        /\ events' = events \o run.events
        /\ notifications' =
              messaging_send(notifications, reached.commit, commit_ok,
                             Notification(reached.row, cluster_data, tower_job_id))
        /\ last' = Response("update", user, cluster_id, DOMAIN cluster_data,
                            FALSE, run.problem, run.dirty)
        /\ UNCHANGED <<region, now, projects, tower_jobs, deletions, hosts,
                       servers, reboots, req>>

-----------------------------------------------------------------------------
(* delete_cluster *)

\* lab_utils.delete_cluster queues the deletion job of the cluster
trigger_deletion(row) == [row EXCEPT !.status = DELETION_QUEUED]

\* variant: a cluster that is still creating may be deleted
DeleteGate_CreatingAllowed(cluster_id, user, crows, prows) ==
    IF ~\E c \in crows : c.id = cluster_id THEN Problem(404, "cluster not found")
    ELSE IF ~user_can_access_cluster(ClusterById(crows, cluster_id), prows, user)
    THEN Problem(403, "cluster access")
    ELSE IF is_deleting(ClusterById(crows, cluster_id).status)
    THEN Problem(400, "already deleting")
    ELSE IF is_deleted(ClusterById(crows, cluster_id).status)
    THEN Problem(400, "already deleted")
    ELSE Passed

\* variant: a cluster that was deleted may be deleted again
DeleteGate_DeletedAllowed(cluster_id, user, crows, prows) ==
    IF ~\E c \in crows : c.id = cluster_id THEN Problem(404, "cluster not found")
    ELSE IF ~user_can_access_cluster(ClusterById(crows, cluster_id), prows, user)
    THEN Problem(403, "cluster access")
    ELSE IF is_deleting(ClusterById(crows, cluster_id).status)
    THEN Problem(400, "already deleting")
    ELSE IF is_creating(ClusterById(crows, cluster_id).status)
    THEN Problem(400, "still creating")
    ELSE Passed

DeleteGate(cluster_id, user, crows, prows) ==
    IF ~\E c \in crows : c.id = cluster_id THEN Problem(404, "cluster not found")
    ELSE IF ~user_can_access_cluster(ClusterById(crows, cluster_id), prows, user)
    THEN Problem(403, "cluster access")
    ELSE IF is_deleting(ClusterById(crows, cluster_id).status)
    THEN Problem(400, "already deleting")
    ELSE IF is_deleted(ClusterById(crows, cluster_id).status)
    THEN Problem(400, "already deleted")
    ELSE IF is_creating(ClusterById(crows, cluster_id).status)
    THEN Problem(400, "still creating")
    ELSE Passed

delete_cluster(cluster_id, user, deletion_ok) ==
    LET gate == DeleteGate(cluster_id, user, clusters, projects)
        cluster == ClusterById(clusters, cluster_id)
        invoked == gate.code = 200
        done == invoked /\ deletion_ok
    IN  /\ last = NoResponse
        /\ deletions' = IF invoked THEN deletions \cup {cluster_id} ELSE deletions
        /\ clusters' = IF done
                       THEN (clusters \ {cluster}) \cup {trigger_deletion(cluster)}
                       ELSE clusters
        /\ last' = Response("delete", user, cluster_id, {}, FALSE,
                            IF ~invoked THEN gate
                            ELSE IF deletion_ok THEN Problem(204, "no content")
                            ELSE Problem(500, "deletion failed"), {})
        /\ UNCHANGED <<region, now, projects, events, notifications, tower_jobs,
                       hosts, servers, reboots, req>>

-----------------------------------------------------------------------------
(* The clock *)

\* the response of the handler that returned reaches its caller
Return ==
    /\ last # NoResponse
    /\ last' = NoResponse
    /\ reboots' = <<>>
    /\ UNCHANGED <<region, now, clusters, projects, events, notifications,
                   tower_jobs, deletions, hosts, servers, req>>

Tick ==
    /\ last = NoResponse
    /\ now < MaxNow
    /\ now' = now + 1
    /\ UNCHANGED <<region, clusters, projects, events, notifications, tower_jobs,
                   deletions, hosts, servers, reboots, req, last>>

-----------------------------------------------------------------------------
(* The lifecycle specification: one cluster through create, update and delete *)

MaxClusters == 1

EmptyDict == [k \in {} |-> Null]
Dict(k, values) == {EmptyDict} \cup {k :> v : v \in values}

PayloadDates == {Null} \cup {IsoDate(t) : t \in 1..MaxDate}

LifecycleRegions ==
    {RegionRow(TRUE, Null, TRUE, le, rm, NoQuota) :
        le \in BOOLEAN, rm \in {Null, ReservationMaxDelta}}

LifecycleBodies ==
    {("region_id" :> RegionId) @@ ("name" :> "a") @@ ("product_id" :> 1)
        @@ ("product_params" :> EmptyDict) @@ ls @@ rs @@ sh :
        ls \in Dict("lifespan_expiration", PayloadDates),
        rs \in Dict("reservation_expiration", PayloadDates),
        sh \in Dict("shared", BOOLEAN)}

\* update payloads: both expirations in every combination
ExpirationRequests ==
    {<<ls @@ rs, Null>> :
        ls \in Dict("lifespan_expiration", PayloadDates),
        rs \in Dict("reservation_expiration", PayloadDates)}

\* a status, with the id of the Tower job that reports it or without one
StatusRequests ==
    {<<"status" :> st, 7>> : st \in ClusterStatus}
    \cup {<<"status" :> ACTIVE, Null>>}

\* a status or a description after an expiration, a description alone
MixedRequests ==
    {<<ex @@ ("status" :> ACTIVE), Null>> :
        ex \in {"lifespan_expiration" :> IsoDate(1),
                "reservation_expiration" :> IsoDate(1)}}
    \cup {<<ex @@ ("description" :> "d"), Null>> :
            ex \in {EmptyDict, "lifespan_expiration" :> IsoDate(1)}}

\* a payload naming an immutable field
ImmutableRequests ==
    {<<(ImmutableKeys[i] :> "z") @@ ("description" :> "d"), Null>> :
        i \in DOMAIN ImmutableKeys}

\* the calls made: the expiration, description and immutable-field requests by
\* an admin; the reservation and description requests, and those with one
\* lifespan, by a user who holds no role; one reservation by a member of the
\* shared-cluster group; one request for a cluster that does not exist
UpdateCalls ==
    {<<c, r, 1>> : c \in 1..MaxClusters,
        r \in ExpirationRequests \cup MixedRequests \cup ImmutableRequests}
    \cup {<<c, r, 5>> : c \in 1..MaxClusters,
            r \in {q \in ExpirationRequests :
                      Has(q[1], "lifespan_expiration")
                      => q[1]["lifespan_expiration"] = IsoDate(1)}
                  \cup MixedRequests}
    \cup {<<c, <<"reservation_expiration" :> IsoDate(1), Null>>, 4>> :
            c \in 1..MaxClusters}
    \cup {<<MaxClusters + 1, <<"description" :> "d", Null>>, 1>>}

Creators == {1, 5}

Init ==
    /\ region \in LifecycleRegions
    /\ now = 0
    /\ clusters = {}
    /\ projects = {}
    /\ events = <<>>
    /\ notifications = <<>>
    /\ tower_jobs = 0
    /\ deletions = {}
    /\ hosts = {}
    /\ servers = <<>>
    /\ reboots = <<>>
    /\ req = <<>>
    /\ last = NoResponse

Create ==
    /\ last = NoResponse
    /\ \E body \in LifecycleBodies, user \in Creators, tower \in TowerOutcomes :
           \E first \in FirstChoices(user, projects) :
               create_cluster(body, user, first, TRUE, TRUE, tower, MaxClusters)

Update ==
    /\ last = NoResponse
    /\ \E call \in UpdateCalls :
           update_cluster_extra(call[1], call[2][1], call[2][2], call[3], MaxUpdates,
                                TRUE)

Next == Create \/ Update \/ Return \/ Tick

Spec == Init /\ [][Next]_vars

-----------------------------------------------------------------------------
(* The status specification: one cluster through its statuses and its deletion *)

StatusRegion == RegionRow(TRUE, Null, TRUE, TRUE, ReservationMaxDelta, NoQuota)

StatusBodies ==
    {("region_id" :> RegionId) @@ ("name" :> "a") @@ ("product_id" :> 1)
        @@ ("product_params" :> EmptyDict) @@ rs @@ sh :
        rs \in Dict("reservation_expiration", {IsoDate(1)}),
        sh \in Dict("shared", {TRUE})}

\* the calls made: every request by an admin; a status, an expiration and a
\* description by a user who holds no role, by the holder of the cluster-admin
\* role and by a member of the shared-cluster group; one request for a cluster
\* that does not exist
StatusCalls ==
    {<<c, r, 1>> : c \in 1..MaxClusters,
        r \in StatusRequests \cup ExpirationRequests \cup MixedRequests
                \cup ImmutableRequests}
    \cup {<<c, r, u>> : c \in 1..MaxClusters, u \in {2, 4, 5},
            r \in {<<"status" :> ACTIVE, Null>>, <<"status" :> DELETED, 7>>,
                   <<"reservation_expiration" :> IsoDate(1), Null>>,
                   <<"description" :> "d", Null>>}}
    \cup {<<MaxClusters + 1, <<"status" :> ACTIVE, Null>>, 1>>}

DeleteCalls ==
    {<<c, u>> : c \in 1..MaxClusters, u \in {1, 2, 4, 5}}
    \cup {<<MaxClusters + 1, 1>>}

InitStatus ==
    /\ region = StatusRegion
    /\ now = 0
    /\ clusters = {}
    /\ projects = {}
    /\ events = <<>>
    /\ notifications = <<>>
    /\ tower_jobs = 0
    /\ deletions = {}
    /\ hosts = {}
    /\ servers = <<>>
    /\ reboots = <<>>
    /\ req = <<>>
    /\ last = NoResponse

CreateStatus ==
    /\ last = NoResponse
    /\ \E body \in StatusBodies, user \in Creators, tower \in TowerOutcomes :
           \E first \in FirstChoices(user, projects) :
               create_cluster(body, user, first, TRUE, TRUE, tower, MaxClusters)

UpdateStatusOf ==
    /\ last = NoResponse
    /\ \E call \in StatusCalls, commit_ok \in BOOLEAN :
           update_cluster_extra(call[1], call[2][1], call[2][2], call[3],
                                MaxStatusUpdates, commit_ok)

Delete ==
    /\ last = NoResponse
    /\ \E call \in DeleteCalls, deletion_ok \in BOOLEAN :
           delete_cluster(call[1], call[2], deletion_ok)

NextStatus == CreateStatus \/ UpdateStatusOf \/ Delete \/ Return

SpecStatus == InitStatus /\ [][NextStatus]_vars

-----------------------------------------------------------------------------
(* Properties of the lifecycle and the status specifications *)

\* a handler runs in this step and answers
Handled(op) == last.op = "none" /\ last'.op = op

Exists(rows, id) == \E r \in rows : r.id = id
Target == ClusterById(clusters, last.cluster_id)
ExpirationKeys == {"lifespan_expiration", "reservation_expiration"}
IsClusterAdmin(u) == UserTable[u].is_admin \/ LAB_CLUSTER_ADMIN \in UserTable[u].roles
FailedStatuses == {PROVISIONING_FAILED, DELETION_FAILED}

\* C1: after every successful update_cluster_extra whose payload contains
\* lifespan_expiration or reservation_expiration, a cluster with both
\* expirations set has reservation_expiration <= lifespan_expiration.
C1_ReservationWithinLifespan ==
    (/\ last.op = "update"
     /\ last.code = 200
     /\ last.keys \cap ExpirationKeys # {}
     /\ Target.reservation_expiration # Null
     /\ Target.lifespan_expiration # Null)
    => Target.reservation_expiration <= Target.lifespan_expiration

\* C5: an update_cluster_extra on a cluster whose status is deleted is rejected
\* (Bad Request for a principal with access, Forbidden for one without); it
\* changes no cluster row, appends no event, leaves none pending in the session
\* and sends no notification.
C5_UpdateOfDeletedRejected ==
    [][(/\ Handled("update")
        /\ Exists(clusters, last'.cluster_id)
        /\ is_deleted(ClusterById(clusters, last'.cluster_id).status))
       => /\ last'.code = IF user_can_access_cluster(
                                 ClusterById(clusters, last'.cluster_id),
                                 projects, last'.user)
                          THEN 400 ELSE 403
          /\ last'.dirty = {}
          /\ clusters' = clusters
          /\ events' = events
          /\ notifications' = notifications]_vars

C5_Witness ==
    /\ last.op = "update"
    /\ last.code = 400
    /\ last.detail = "cluster deleted"
    /\ Target.status = DELETED
    /\ last.keys # {}

\* C6: in a region with lifespan_enabled = false every cluster has
\* lifespan_expiration = null, after create_cluster and after any updates.
C6_NoLifespanWhenDisabled ==
    ~region.lifespan_enabled => \A c \in clusters : c.lifespan_expiration = Null

C6_Witness ==
    /\ ~region.lifespan_enabled
    /\ last.op = "create"
    /\ last.code = 200
    /\ "lifespan_expiration" \in last.keys
    /\ ~last.shared
    /\ Target.lifespan_expiration = Null

\* C7 as stated: every successful create_cluster in a region with
\* lifespan_enabled whose payload omits lifespan_expiration, shared or not,
\* yields lifespan_expiration = created + region.lifespan_delta.
C7_DefaultLifespanEveryCreate ==
    (/\ last.op = "create"
     /\ last.code = 200
     /\ region.lifespan_enabled
     /\ "lifespan_expiration" \notin last.keys)
    => Target.lifespan_expiration = Target.created + region.lifespan_delta

\* C7 amended: every successful create_cluster of a cluster that is not shared,
\* in a region with lifespan_enabled and with a payload that omits
\* lifespan_expiration, yields lifespan_expiration = created + region.lifespan_delta.
C7_DefaultLifespan ==
    (/\ last.op = "create"
     /\ last.code = 200
     /\ region.lifespan_enabled
     /\ "lifespan_expiration" \notin last.keys
     /\ ~last.shared)
    => Target.lifespan_expiration = Target.created + region.lifespan_delta

C7_Witness ==
    /\ last.op = "create"
    /\ last.code = 200
    /\ region.lifespan_enabled
    /\ "lifespan_expiration" \notin last.keys
    /\ ~last.shared
    /\ Target.created = 1
    /\ Target.lifespan_expiration = 1 + LifespanDelta

\* C8: delete_cluster on a cluster that is creating, deleting or deleted is
\* rejected (Bad Request for a principal with access), the deletion
\* collaborator is not invoked and no cluster row changes; the collaborator is
\* invoked only for a cluster that is ACTIVE or in a failed status.
C8_DeleteOnlyWhenSettled ==
    [][Handled("delete") =>
        /\ (/\ Exists(clusters, last'.cluster_id)
            /\ LET st == ClusterById(clusters, last'.cluster_id).status
               IN  is_creating(st) \/ is_deleting(st) \/ is_deleted(st))
           => /\ last'.code = IF user_can_access_cluster(
                                     ClusterById(clusters, last'.cluster_id),
                                     projects, last'.user)
                              THEN 400 ELSE 403
              /\ deletions' = deletions
              /\ clusters' = clusters
              /\ events' = events
        /\ (deletions' # deletions \/ clusters' # clusters)
           => /\ Exists(clusters, last'.cluster_id)
              /\ ClusterById(clusters, last'.cluster_id).status
                    \in {ACTIVE} \cup FailedStatuses]_vars

C8_Witness ==
    /\ last.op = "delete"
    /\ last.code = 400
    /\ last.detail = "still creating"
    /\ Target.status = QUEUED
    /\ deletions = {}

\* C9: an update_cluster_extra whose payload contains status, by a principal
\* who is neither admin nor holder of the cluster-admin role, never succeeds:
\* no cluster row changes and no event is appended; when nothing before the
\* status branch rejects the request, the answer is Forbidden. A step of
\* update that changes a cluster's status is made by a cluster admin.
C9_StatusOnlyByAdmin ==
    [][Handled("update") =>
        /\ ("status" \in last'.keys /\ ~IsClusterAdmin(last'.user))
           => /\ last'.code # 200
              /\ clusters' = clusters
              /\ events' = events
              /\ (/\ Exists(clusters, last'.cluster_id)
                  /\ ~is_deleted(ClusterById(clusters, last'.cluster_id).status)
                  /\ last'.keys \cap (ExpirationKeys \cup Range(ImmutableKeys)) = {})
                 => last'.code = 403
        /\ (\E c \in clusters : \E d \in clusters' :
                c.id = d.id /\ c.status # d.status)
           => IsClusterAdmin(last'.user)]_vars

C9_Witness ==
    /\ last.op = "update"
    /\ last.code = 403
    /\ last.detail = "status forbidden"
    /\ ~IsClusterAdmin(last.user)
    /\ cluster_owner_id(Target, projects) = last.user

\* C12: every cluster produced by a successful create_cluster with both
\* expirations non-null has reservation_expiration <= lifespan_expiration,
\* whatever the region's rules and the values of the payload.
C12_CreatedReservationWithinLifespan ==
    (/\ last.op = "create"
     /\ last.code = 200
     /\ Target.reservation_expiration # Null
     /\ Target.lifespan_expiration # Null)
    => Target.reservation_expiration <= Target.lifespan_expiration

\* C13: a null reservation_expiration requires the permission to disable the
\* expiration only when the region's reservation_expiration_max is set: neither
\* create_cluster nor update_cluster_extra refuses a null reservation in a
\* region without it, and the refusal is given only to a principal who lacks
\* the permission.
C13_NullReservationOnlyWhenMax ==
    (/\ last.op \in {"create", "update"}
     /\ last.detail = "no expiration forbidden")
    => /\ last.code = 403
       /\ reservation_expiration_max_set(region)
       /\ ~user_can_disable_expiration(region, last.user)

\* C14: a rejected update is never half-applied: whenever update_cluster_extra
\* answers with an error, at whatever step, no stored cluster field changes, no
\* event of the request is persisted and no notification is sent.
C14_RejectedUpdateNotApplied ==
    [][(Handled("update") /\ last'.code # 200)
       => /\ clusters' = clusters
          /\ events' = events
          /\ notifications' = notifications]_vars

\* the status was refused to a principal who is no admin after the reservation
\* change of the same payload had been accepted and its event added
C14_Witness ==
    /\ last.op = "update"
    /\ last.code = 403
    /\ last.detail = "status forbidden"
    /\ "reservation_expiration" \in last.keys
    /\ last.dirty = {"event"}
    /\ Len(events) = 1
    /\ notifications = <<>>
    /\ Target.reservation_expiration = Null

\* C16: an update_cluster_extra whose payload contains name, region_id,
\* product_id or product_params is rejected (Bad Request when the cluster exists
\* and the principal has access to it) and changes nothing; and no step changes
\* the name, region, product or product_params of a stored cluster.
C16_ImmutableAfterCreate ==
    [][/\ (Handled("update") /\ last'.keys \cap Range(ImmutableKeys) # {})
          => /\ last'.code # 200
             /\ (/\ Exists(clusters, last'.cluster_id)
                 /\ user_can_access_cluster(ClusterById(clusters, last'.cluster_id),
                                            projects, last'.user))
                => last'.code = 400
             /\ last'.dirty = {}
             /\ clusters' = clusters
             /\ events' = events
             /\ notifications' = notifications
       /\ \A c \in clusters : \A d \in clusters' :
             c.id = d.id => /\ d.name = c.name
                            /\ d.region_id = c.region_id
                            /\ d.product_id = c.product_id
                            /\ d.product_params = c.product_params]_vars

\* a payload with product_params and a description was refused and the
\* description of the cluster is the one it was created with
C16_Witness ==
    /\ last.op = "update"
    /\ last.code = 400
    /\ last.detail = "immutable field"
    /\ last.keys = {"product_params", "description"}
    /\ Target.description = ""
    /\ Target.product_params = ProductTable[1].parameters_defaults

\* the place of a status in the lifecycle
StatusRank ==
    (QUEUED :> 1) @@ (PROVISIONING :> 2) @@ (PROVISIONING_FAILED :> 2)
        @@ (ACTIVE :> 3) @@ (DELETION_QUEUED :> 4) @@ (DELETION_FAILED :> 4)
        @@ (DELETED :> 5)

\* a step of the lifecycle: forwards, a failed status being entered from the
\* stage that failed (provisioning also from QUEUED) and left for the same
\* stage or a later one
LifecycleStep(old, new) ==
    IF new = PROVISIONING_FAILED THEN old \in {QUEUED, PROVISIONING}
    ELSE IF new = DELETION_FAILED THEN old = DELETION_QUEUED
    ELSE IF old \in FailedStatuses THEN StatusRank[old] <= StatusRank[new]
    ELSE StatusRank[old] < StatusRank[new]

\* C17: every change of a cluster's status follows the lifecycle order
\* QUEUED, CREATING, ACTIVE, DELETING, DELETED, with the failed statuses
\* entered only from QUEUED, CREATING or DELETING: no step moves a cluster
\* backwards.
C17_LifecycleOrder ==
    [][\A c \in clusters : \A d \in clusters' :
          (c.id = d.id /\ c.status # d.status)
          => LifecycleStep(c.status, d.status)]_vars

\* the latest reservation an update of the cluster may ask for
UpdateCap(cluster) ==
    LET from == IF cluster.reservation_expiration = Null THEN now
                ELSE cluster.reservation_expiration
        cap == from + region.reservation_expiration_max
    IN  IF cluster.lifespan_expiration # Null /\ cluster.lifespan_expiration < cap
        THEN cluster.lifespan_expiration
        ELSE cap

\* the update requests that name a date as reservation_expiration, for a
\* cluster that exists
DatedReservationCalls ==
    {call \in UpdateCalls :
        /\ Exists(clusters, call[1])
        /\ Has(call[2][1], "reservation_expiration")
        /\ call[2][1]["reservation_expiration"] # Null}

Appended(evs, type) ==
    SelectSeq(SubSeq(evs, Len(events) + 1, Len(evs)), LAMBDA e : e.type = type)

\* C22: every successful update_cluster_extra whose payload contains
\* lifespan_expiration appends exactly one LifespanChangeEvent, and every one
\* whose payload contains reservation_expiration exactly one
\* ReservationChangeEvent; the event's old_value is the value stored before the
\* update and its new_value the value stored after it, also when the two are
\* equal. An update without the field appends no event of the kind.
C22_OneChangeEventPerField ==
    [][(Handled("update") /\ last'.code = 200)
       => LET before == ClusterById(clusters, last'.cluster_id)
              after == ClusterById(clusters', last'.cluster_id)
              ls == Appended(events', "lifespan_change")
              rs == Appended(events', "reservation_change")
          IN  /\ SubSeq(events', 1, Len(events)) = events
              /\ IF "lifespan_expiration" \in last'.keys
                 THEN /\ Len(ls) = 1
                      /\ ls[1].cluster_id = last'.cluster_id
                      /\ ls[1].user_id = last'.user
                      /\ ls[1].old_value = before.lifespan_expiration
                      /\ ls[1].new_value = after.lifespan_expiration
                 ELSE ls = <<>>
              /\ IF "reservation_expiration" \in last'.keys
                 THEN /\ Len(rs) = 1
                      /\ rs[1].cluster_id = last'.cluster_id
                      /\ rs[1].user_id = last'.user
                      /\ rs[1].old_value = before.reservation_expiration
                      /\ rs[1].new_value = after.reservation_expiration
                 ELSE rs = <<>>]_vars

\* the reservation asked for is the one the cluster had: the event is there,
\* with the same old and new value
C22_Witness ==
    /\ last.op = "update"
    /\ last.code = 200
    /\ last.keys = {"reservation_expiration"}
    /\ Len(events) = 2
    /\ events[2].type = "reservation_change"
    /\ events[2].old_value = 1
    /\ events[2].new_value = 1
    /\ Target.reservation_expiration = 1

\* the payloads and job ids of the update requests made for a cluster by a principal
RequestsOf(cluster_id, user) ==
    {call[2] : call \in {c \in StatusCalls : c[1] = cluster_id /\ c[3] = user}}

\* C23: the 'lab.cluster.update' notification is sent exactly once per
\* successful update_cluster_extra, after the commit, and carries the cluster,
\* the request's payload and its tower_job_id; none is sent for an update that
\* is rejected or whose commit did not happen, and none by create or delete.
C23_NotifiedOncePerUpdate ==
    [][IF Handled("update") /\ last'.code = 200
       THEN LET after == ClusterById(clusters', last'.cluster_id)
                message == notifications'[Len(notifications')]
            IN  /\ Len(notifications') = Len(notifications) + 1
                /\ SubSeq(notifications', 1, Len(notifications)) = notifications
                /\ message.topic = "lab.cluster.update"
                /\ message.cluster_id = last'.cluster_id
                /\ message.cluster_name = after.name
                /\ DOMAIN message.update_data = last'.keys
                /\ <<message.update_data, message.tower_job_id>>
                      \in RequestsOf(last'.cluster_id, last'.user)
                /\ Has(message.update_data, "status")
                   => /\ after.status = message.update_data["status"]
                      /\ events'[Len(events')].tower_job_id = message.tower_job_id
                /\ Has(message.update_data, "description")
                   => after.description = message.update_data["description"]
       ELSE notifications' = notifications]_vars

\* the second accepted update of a cluster, reported by a job: two
\* notifications, the second with the payload and the job id of the request
C23_Witness ==
    /\ last.op = "update"
    /\ last.code = 200
    /\ last.keys = {"status"}
    /\ Len(notifications) = 2
    /\ notifications[2].cluster_id = last.cluster_id
    /\ notifications[2].update_data = ("status" :> ACTIVE)
    /\ notifications[2].tower_job_id = 7
    /\ Target.status = ACTIVE
    /\ Len(events) = 3

\* C26: an update_cluster_extra whose payload contains lifespan_expiration, on
\* a cluster that is not deleted, in a region with lifespan_enabled = false, by
\* a principal with access, drops the field and completes: it answers with the
\* updated cluster, applies the rest of the payload and leaves
\* lifespan_expiration null.
C26_LifespanDroppedWhenDisabled ==
    (/\ last.op = "update"
     /\ ~region.lifespan_enabled
     /\ "lifespan_expiration" \in last.keys
     /\ last.keys \subseteq {"lifespan_expiration", "description"}
     /\ Exists(clusters, last.cluster_id)
     /\ ~is_deleted(Target.status)
     /\ user_can_access_cluster(Target, projects, last.user))
    => /\ last.code = 200
       /\ Target.lifespan_expiration = Null
       /\ "description" \in last.keys => Target.description = "d"

-----------------------------------------------------------------------------
(* The quota specification: creates of several clusters against the gates,   *)
(* the project rules, the product schema and the user quota                  *)

OtherCloudId == 2

\* a project some user owns in another cloud
OtherCloudProject ==
    [id |-> 1, cloud_id |-> OtherCloudId, name |-> <<"lab">>, owner_id |-> 5,
     group_id |-> Null]

QuotaRegions ==
    {RegionRow(TRUE, Null, TRUE, FALSE, Null, UserQuota),
     RegionRow(TRUE, Null, TRUE, FALSE, Null, NoQuota),
     RegionRow(FALSE, Null, TRUE, FALSE, Null, UserQuota),
     RegionRow(TRUE, Null, FALSE, FALSE, Null, UserQuota),
     RegionRow(TRUE, OwnerGroupId, TRUE, FALSE, Null, UserQuota),
     RegionRow(TRUE, Null, TRUE, TRUE, ReservationMaxDelta, UserQuota)}

CreateBody(region_id, name, product_id, product_params) ==
    ("region_id" :> region_id) @@ ("name" :> name) @@ ("product_id" :> product_id)
        @@ ("product_params" :> product_params)

QuotaBodies ==
    {CreateBody(RegionId, name, 1, pp) :
        name \in {"a", "b"}, pp \in Dict("num_nodes", {2, MaxNodes + 1})}
    \cup {CreateBody(RegionId, "b", 1, "num_nodes" :> (MaxNodes + 1)) @@ ("shared" :> TRUE)
              @@ ("lifespan_expiration" :> IsoDate(1))
              @@ ("reservation_expiration" :> IsoDate(MaxDate)),
          CreateBody(RegionId + 1, "b", 1, EmptyDict),
          CreateBody(RegionId, "b", 2, "num_nodes" :> MaxNodes),
          CreateBody(RegionId, "b", 3, EmptyDict),
          CreateBody(RegionId, "b", Len(ProductTable) + 1, EmptyDict)}
    \cup {CreateBody(RegionId, "b", 1, EmptyDict) @@ ("project_id" :> id) :
            id \in {1, 2, MaxQuotaClusters + 2}}

QuotaUsers == {1, 3, 5}

\* what the collaborators of one create do: from_dict, usage computation, Tower
CreateOutcomes ==
    {<<TRUE, TRUE, tower>> : tower \in TowerOutcomes}
    \cup {<<FALSE, TRUE, "ok">>, <<TRUE, FALSE, "ok">>}

InitQuota ==
    /\ region \in QuotaRegions
    /\ now = 0
    /\ clusters = {}
    /\ projects = {OtherCloudProject}
    /\ events = <<>>
    /\ notifications = <<>>
    /\ tower_jobs = 0
    /\ deletions = {}
    /\ hosts = {}
    /\ servers = <<>>
    /\ reboots = <<>>
    /\ req = <<>>
    /\ last = NoResponse

CreateQuota ==
    /\ last = NoResponse
    /\ \E body \in QuotaBodies, user \in QuotaUsers, outcome \in CreateOutcomes :
           \E first \in FirstChoices(user, projects) :
               create_cluster(body, user, first, outcome[1], outcome[2], outcome[3],
                              MaxQuotaClusters)

\* the job callbacks of an admin: the cluster becomes active, or deleted
UpdateQuota ==
    /\ last = NoResponse
    /\ \E cluster_id \in 1..MaxQuotaClusters, status \in {ACTIVE, DELETED} :
           update_cluster_extra(cluster_id, "status" :> status, 7, 1, MaxUpdates, TRUE)

\* the deletion of a cluster by an admin and by a user who holds no role
DeleteQuota ==
    /\ last = NoResponse
    /\ \E cluster_id \in 1..MaxQuotaClusters, user \in {1, 5}, deletion_ok \in BOOLEAN :
           delete_cluster(cluster_id, user, deletion_ok)

NextQuota == CreateQuota \/ UpdateQuota \/ DeleteQuota \/ Return

SpecQuota == InitQuota /\ [][NextQuota]_vars

-----------------------------------------------------------------------------
(* Properties of the quota specification *)

\* the answers given once the cluster row is in the transaction
AfterClusterRow == {"invalid params", "quota exceeded", "usage failed", "tower failed"}

\* C3: when create_cluster returns an error after the cluster row was added to
\* the transaction, the transaction has been rolled back: the session holds no
\* flushed, uncommitted cluster or project row when the error is returned.
C3_RolledBackBeforeError ==
    (/\ last.op = "create"
     /\ last.code # 200
     /\ last.detail \in AfterClusterRow)
    => last.dirty = {}

\* C15: when the computation of the cluster's usage fails, or the job template
\* cannot be fetched or launched, create_cluster answers Internal Server Error
\* once, with the transaction rolled back: storage holds no cluster row, no
\* default project row and no event of the request, no job counts as launched
\* and no cluster becomes QUEUED.
C15_ExternalFailureRolledBack ==
    [][(/\ Handled("create")
        /\ last'.detail \in {"usage failed", "tower failed"})
       => /\ last'.code = 500
          /\ last'.dirty = {}
          /\ last'.cluster_id = Null
          /\ clusters' = clusters
          /\ projects' = projects
          /\ events' = events
          /\ tower_jobs' = tower_jobs]_vars

\* the job could not be launched for the first cluster of a user who had no
\* default project: neither the project nor the cluster is stored
C15_Witness ==
    /\ last.op = "create"
    /\ last.code = 500
    /\ last.detail = "tower failed"
    /\ "project_id" \notin last.keys
    /\ DefaultProjectMatches(last.user, projects) = {}
    /\ clusters = {}
    /\ events = <<>>

\* the create requests for a shared cluster, by every principal
SharedCalls == {b \in QuotaBodies : Has(b, "shared") /\ b["shared"]} \X Users

\* the answers of the product-parameter validation and of the quota evaluation
ValidationAnswers == {"invalid params", "quota exceeded", "usage failed"}

\* C18: every cluster successfully created with shared = true has both
\* expirations null whatever the payload and the region's rules are; a shared
\* create is never answered by the product-parameter validation or the quota
\* evaluation; and a shared create by a principal who may not create shared
\* clusters is rejected with no cluster created.
C18_SharedCreate ==
    /\ (last.op = "create" /\ last.shared)
       => /\ last.detail \notin ValidationAnswers
          /\ last.code = 200 => /\ Target.lifespan_expiration = Null
                                /\ Target.reservation_expiration = Null
          /\ ~user_can_create_sharedcluster(last.user)
             => last.code # 200 /\ last.cluster_id = Null
    /\ \A call \in SharedCalls, outcome \in CreateOutcomes :
          \A first \in FirstChoices(call[2], projects) :
              LET run == CreateRun(call[1], call[2], clusters, projects, first,
                                   outcome[1], outcome[2], outcome[3])
              IN  /\ run.problem.detail \notin ValidationAnswers
                  /\ \A c \in run.clusters : /\ c.lifespan_expiration = Null
                                             /\ c.reservation_expiration = Null
                  /\ ~user_can_create_sharedcluster(call[2])
                     => /\ run.problem.code # 200
                        /\ ~run.commit
                        /\ run.clusters = {}
                        /\ run.events = <<>>

\* a shared cluster whose payload gave both expirations and more nodes than
\* the product's schema and the user's quota allow, created in a region that
\* enables lifespans and caps reservations
C18_Witness ==
    /\ last.op = "create"
    /\ last.code = 200
    /\ last.shared
    /\ ExpirationKeys \subseteq last.keys
    /\ region.lifespan_enabled
    /\ reservation_expiration_max_set(region)
    /\ region.user_quota.set
    /\ Target.product_params["num_nodes"] = MaxNodes + 1
    /\ Target.lifespan_expiration = Null
    /\ Target.reservation_expiration = Null

\* the event log of a cluster
EventsOf(evs, cluster_id) == SelectSeq(evs, LAMBDA e : e.cluster_id = cluster_id)

\* C19: after every successful create_cluster the new cluster has status
\* QUEUED and its event log is exactly one event, a TowerJobEvent with status
\* QUEUED, attributed to the creating principal and carrying the id of the job
\* the launch returned; a cluster row is committed only if a job was launched.
C19_CreatedQueuedWithOneEvent ==
    [][Handled("create") =>
        /\ last'.code = 200
           => /\ ~Exists(clusters, last'.cluster_id)
              /\ Exists(clusters', last'.cluster_id)
              /\ ClusterById(clusters', last'.cluster_id).status = QUEUED
              /\ tower_jobs' = tower_jobs + 1
              /\ EventsOf(events', last'.cluster_id)
                    = <<[type |-> "tower_job", cluster_id |-> last'.cluster_id,
                         user_id |-> last'.user, date |-> now,
                         tower_id |-> region.tower_id, tower_job_id |-> tower_jobs',
                         status |-> QUEUED, old_value |-> Null, new_value |-> Null]>>
        /\ clusters' # clusters
           => /\ last'.code = 200
              /\ tower_jobs' = tower_jobs + 1
        /\ last'.code # 200 => events' = events /\ tower_jobs' = tower_jobs]_vars

\* the second cluster was created by the second job launched
C19_Witness ==
    /\ last.op = "create"
    /\ last.code = 200
    /\ last.cluster_id = 2
    /\ tower_jobs = 2
    /\ Target.status = QUEUED
    /\ Len(EventsOf(events, 2)) = 1
    /\ EventsOf(events, 2)[1].tower_job_id = 2
    /\ EventsOf(events, 2)[1].user_id = last.user

\* C20: DELETED is terminal: once a cluster's status is DELETED no
\* create_cluster, update_cluster_extra or delete_cluster by any principal
\* changes its status or any other of its fields, and no step removes a
\* cluster row.
C20_DeletedIsTerminal ==
    [][\A c \in clusters :
          /\ Exists(clusters', c.id)
          /\ is_deleted(c.status) => c \in clusters']_vars

\* the deletion of a deleted cluster was refused after its name had been
\* taken by a new cluster
C20_Witness ==
    /\ last.op = "delete"
    /\ last.code = 400
    /\ last.detail = "already deleted"
    /\ Target.status = DELETED
    /\ \E c \in clusters : /\ c.id # Target.id
                            /\ c.name = Target.name
                            /\ c.status = QUEUED
    /\ deletions = {}

QuotaCalls == QuotaBodies \X QuotaUsers

\* the footprint the payload asks for
Requested(body) ==
    LET product == ProductTable[body["product_id"]]
        nodes == IF Has(body["product_params"], "num_nodes")
                 THEN body["product_params"]["num_nodes"]
                 ELSE product.parameters_defaults["num_nodes"]
    IN  [k \in Range(QuotaKeys) |-> product.flavor[k] * nodes]

\* the quota fields with a limit that the payload would push over it
Overshot(body, user) ==
    {k \in Range(QuotaKeys) :
        /\ region.user_quota.limits[k] # Null
        /\ get_user_quota_usage(region, user, clusters, projects)[k]
              + Requested(body)[k] > region.user_quota.limits[k]}

\* the quota check applies to the payload
QuotaApplies(body) ==
    /\ region.user_quota.set
    /\ ~(Has(body, "shared") /\ body["shared"])
    /\ ProductExists(body["product_id"])
    /\ ProductTable[body["product_id"]].has_flavors

\* C4: in every reachable state and for every create request to which the
\* quota check applies (region quota set, product with flavors, not shared):
\* the request is accepted only if no quota field with a limit would be
\* overshot; if it passes every earlier gate it is answered 'quota exceeded'
\* exactly when some field would be overshot; and exceeded_resources then
\* lists each overshot field once and nothing else. No other request is
\* answered 'quota exceeded'.
C4_QuotaCheck ==
    \A call \in QuotaCalls : \A first \in FirstChoices(call[2], projects) :
        LET body == call[1]
            user == call[2]
            answer == CreateRun(body, user, clusters, projects, first,
                                TRUE, TRUE, "ok").problem
        IN  IF QuotaApplies(body)
            THEN /\ answer.code = 200 => Overshot(body, user) = {}
                 /\ answer.detail \in {"ok", "quota exceeded"}
                    => (answer.detail = "quota exceeded" <=> Overshot(body, user) # {})
                 /\ answer.detail = "quota exceeded"
                    => /\ Range(answer.exceeded_resources) = Overshot(body, user)
                       /\ Len(answer.exceeded_resources)
                             = Cardinality(Overshot(body, user))
            ELSE answer.detail # "quota exceeded"

C4_Witness ==
    /\ last.op = "create"
    /\ last.code = 400
    /\ last.detail = "quota exceeded"
    /\ last.exceeded_resources = <<"num_vcpus", "ram_mb">>
    /\ clusters # {}

\* the gates of a create, from the region to the quota
GatesPassed(body, user, first) ==
    LET shared == Has(body, "shared") /\ body["shared"]
    IN  /\ body["region_id"] = region.id
        /\ user_can_access_region(region, user)
        /\ region.enabled
        /\ user_can_create_reservation(region, user)
        /\ ~\E c \in clusters : c.name = body["name"] /\ c.status # DELETED
        /\ ProductExists(body["product_id"])
        /\ ProductTable[body["product_id"]].enabled
        /\ shared => user_can_create_sharedcluster(user)
        /\ CreateExpiration(body, user, now).problem.code = 200
        /\ Has(body, "project_id")
           => /\ Exists(projects, body["project_id"])
              /\ ProjectById(projects, body["project_id"]).cloud_id = CloudId
              /\ \/ ProjectById(projects, body["project_id"]).owner_id = user
                 \/ IsClusterAdmin(user)
        /\ ~shared => MergeParams(ProductTable[body["product_id"]].parameters_defaults,
                                  body["product_params"])["num_nodes"] \in 1..MaxNodes
        /\ QuotaApplies(body) => Overshot(body, user) = {}

\* C24: the job template is launched at most once per create request and only
\* after every gate has passed (region, access, reservation permission, unique
\* name, product, expiration policy, project, product parameters of a cluster
\* that is not shared, quota when configured); no job is launched by a create
\* that is answered Not Found, Forbidden or Bad Request.
C24_LaunchAfterGates ==
    /\ tower_jobs = Cardinality(clusters)
    /\ \A call \in QuotaBodies \X Users, outcome \in CreateOutcomes :
          \A first \in FirstChoices(call[2], projects) :
              LET run == CreateRun(call[1], call[2], clusters, projects, first,
                                   outcome[1], outcome[2], outcome[3])
              IN  /\ Len(run.events) <= 1
                  /\ Cardinality(run.clusters) = Len(run.events)
                  /\ run.commit <=> run.events # <<>>
                  /\ run.problem.code \in {400, 403, 404} => ~run.commit
                  /\ run.commit => /\ GatesPassed(call[1], call[2], first)
                                   /\ run.problem.code = 200
                                   /\ outcome[3] = "ok"

\* the quota stopped the second create of a user: the one job launched is
\* that of the first cluster
C24_Witness ==
    /\ last.op = "create"
    /\ last.code = 400
    /\ last.detail = "quota exceeded"
    /\ last.cluster_id = Null
    /\ tower_jobs = 1
    /\ Len(events) = 1
    /\ Cardinality(clusters) = 1

-----------------------------------------------------------------------------
(* create_cluster, statement by statement: each request runs in a session of *)
(* its own, reads the committed rows and its own flushed rows, and the rows  *)
(* it flushes reach storage when it commits                                  *)

MaxWorkers == 2

Workers == 1..MaxWorkers

IdleWorker ==
    [pc |-> "idle", body |-> EmptyDict, user |-> Null, cd |-> EmptyDict,
     shared |-> FALSE, new_projects |-> {}, new_clusters |-> {}, answer |-> Problem(0, "")]

\* the rows flushed by the sessions in flight: ids come from a sequence that
\* every session advances
FlushedProjects == UNION {req[w].new_projects : w \in Workers}
FlushedClusters == UNION {req[w].new_clusters : w \in Workers}

\* the cluster row of the request
RowOf(w) == CHOOSE row \in req[w].new_clusters : TRUE

Answered(w, p) == [req EXCEPT ![w].pc = "done", ![w].answer = p]

\* lines 226-323: the gates, the expirations and the merged parameters
receive(w, body, user) ==
    LET gate == CreateGate(body, user, clusters)
        exp == CreateExpiration(body, user, now)
        cd == ("product_params" :>
                  MergeParams(ProductTable[body["product_id"]].parameters_defaults,
                              body["product_params"])) @@ exp.data
        call == [req[w] EXCEPT !.body = body, !.user = user]
    IN  /\ req[w].pc = "idle"
        /\ req' = IF gate.code # 200
                  THEN [req EXCEPT ![w] = [call EXCEPT !.pc = "done", !.answer = gate]]
                  ELSE IF exp.problem.code # 200
                  THEN [req EXCEPT ![w] = [call EXCEPT !.pc = "done",
                                                       !.answer = exp.problem]]
                  ELSE [req EXCEPT ![w] = [call EXCEPT !.pc = "project", !.cd = cd,
                                                       !.shared = exp.shared]]
        /\ UNCHANGED <<region, now, clusters, projects, events, notifications,
                       tower_jobs, deletions, hosts, servers, reboots, last>>

\* lines 325-353: the explicit project, or the query for the default project
resolve_project(w, first) ==
    LET proj == ResolveProject(req[w].cd, req[w].user, req[w].shared, projects,
                               first, Null)
    IN  /\ req[w].pc = "project"
        /\ req' = IF proj.problem.code # 200 THEN Answered(w, proj.problem)
                  ELSE IF proj.created # {} THEN [req EXCEPT ![w].pc = "insert"]
                  ELSE [req EXCEPT ![w].pc = "cluster",
                                   ![w].cd = ("project_id" :> proj.project_id) @@ @]
        /\ UNCHANGED <<region, now, clusters, projects, events, notifications,
                       tower_jobs, deletions, hosts, servers, reboots, last>>

\* lines 354-371: the default project is added and flushed; a schema that keeps
\* the project name unique within a cloud refuses the flush when a committed
\* row has the name
insert_project(w, flush_ok) ==
    LET proj == ResolveProject(req[w].cd, req[w].user, req[w].shared, {}, Null,
                               NextId(projects \cup FlushedProjects))
    IN  /\ req[w].pc = "insert"
        /\ ~flush_ok => DefaultProjectMatches(req[w].user, projects) # {}
        /\ req' = IF ~flush_ok THEN Answered(w, Problem(500, "flush failed"))
                  ELSE [req EXCEPT ![w].pc = "cluster",
                                   ![w].new_projects = proj.created,
                                   ![w].cd = ("project_id" :> proj.project_id) @@ @]
        /\ UNCHANGED <<region, now, clusters, projects, events, notifications,
                       tower_jobs, deletions, hosts, servers, reboots, last>>

\* lines 373-417: the cluster row is added and flushed, then validated and
\* checked against the quota
add_cluster(w, from_dict_ok, usage_ok) ==
    LET row == FromDict(req[w].cd, NextId(clusters \cup FlushedClusters))
        val == ValidateAndQuota(row, req[w].shared, req[w].user, clusters \cup {row},
                                projects \cup req[w].new_projects, usage_ok)
    IN  /\ req[w].pc = "cluster"
        /\ req' = IF ~from_dict_ok
                  THEN Answered(w, Problem(400, "from_dict failed"))
                  ELSE IF val.problem.code # 200
                  THEN [Answered(w, val.problem) EXCEPT
                           ![w].new_clusters = IF val.rollback THEN {} ELSE {row},
                           ![w].new_projects = IF val.rollback THEN {} ELSE @]
                  ELSE [req EXCEPT ![w].pc = "launch", ![w].new_clusters = {row}]
        /\ UNCHANGED <<region, now, clusters, projects, events, notifications,
                       tower_jobs, deletions, hosts, servers, reboots, last>>

\* lines 419-454: the Tower job is launched, its event added, and the session
\* committed
launch(w, tower) ==
    /\ req[w].pc = "launch"
    /\ IF tower # "ok"
       THEN /\ req' = [Answered(w, Problem(500, "tower failed")) EXCEPT
                          ![w].new_clusters = {}, ![w].new_projects = {}]
            /\ UNCHANGED <<clusters, projects, events, tower_jobs>>
       ELSE /\ req' = [Answered(w, Passed) EXCEPT ![w].new_projects = {}]
            /\ clusters' = clusters \cup {[RowOf(w) EXCEPT !.status = QUEUED]}
            /\ projects' = projects \cup req[w].new_projects
            /\ events' = events \o
                   <<ClusterTowerJobEvent(RowOf(w).id, req[w].user, now,
                                          region.tower_id, tower_jobs + 1, QUEUED)>>
            /\ tower_jobs' = tower_jobs + 1
    /\ UNCHANGED <<region, now, notifications, deletions, hosts, servers, reboots, last>>

\* the response reaches the caller and the request's session is discarded
respond(w) ==
    /\ req[w].pc = "done"
    /\ last' = Response("create", req[w].user,
                        IF req[w].answer.code = 200 THEN RowOf(w).id ELSE Null,
                        DOMAIN req[w].body, req[w].shared, req[w].answer,
                        (IF req[w].new_projects # {} THEN {"project"} ELSE {})
                            \cup (IF req[w].answer.code # 200 /\ req[w].new_clusters # {}
                                  THEN {"cluster"} ELSE {}))
    /\ req' = [req EXCEPT ![w].pc = "answered", ![w].new_projects = {},
                           ![w].new_clusters = IF req[w].answer.code = 200 THEN @ ELSE {}]
    /\ UNCHANGED <<region, now, clusters, projects, events, notifications,
                   tower_jobs, deletions, hosts, servers, reboots>>

-----------------------------------------------------------------------------
(* The concurrent specification: one create request on each worker *)

ConcBodies ==
    {CreateBody(RegionId, name, 1, pp) @@ pr :
        name \in {"a", "b"}, pp \in Dict("num_nodes", {2}),
        pr \in Dict("project_id", {1})}

ConcRegions ==
    {RegionRow(TRUE, Null, TRUE, FALSE, Null, user_quota) :
        user_quota \in {NoQuota, UserQuota}}

ConcUsers == {1, 5}

InitConc ==
    /\ region \in ConcRegions
    /\ now = 0
    /\ clusters = {}
    /\ projects = {OtherCloudProject}
    /\ events = <<>>
    /\ notifications = <<>>
    /\ tower_jobs = 0
    /\ deletions = {}
    /\ hosts = {}
    /\ servers = <<>>
    /\ reboots = <<>>
    /\ req = [w \in Workers |-> IdleWorker]
    /\ last = NoResponse

Receive == \E w \in Workers, body \in ConcBodies, user \in ConcUsers : receive(w, body, user)

ResolveProjectStep ==
    \E w \in {v \in Workers : req[v].pc = "project"} :
        \E first \in FirstChoices(req[w].user, projects) : resolve_project(w, first)

InsertProject == \E w \in Workers, flush_ok \in BOOLEAN : insert_project(w, flush_ok)

AddCluster == \E w \in Workers, from_dict_ok \in BOOLEAN : add_cluster(w, from_dict_ok, TRUE)

Launch == \E w \in Workers, tower \in TowerOutcomes : launch(w, tower)

Respond == \E w \in Workers : respond(w)

NextConc ==
    Receive \/ ResolveProjectStep \/ InsertProject \/ AddCluster \/ Launch \/ Respond

SpecConc == InitConc /\ [][NextConc]_vars

-----------------------------------------------------------------------------
(* Properties of the concurrent specification *)

\* the requests that created a cluster in the caller's default project
DefaultProjectCreates ==
    {w \in Workers : /\ req[w].pc \in {"done", "answered"}
                     /\ req[w].answer.code = 200
                     /\ ~Has(req[w].body, "project_id")}

\* C2: for any interleaving of two create_cluster calls by the same user in the
\* same region with no project_id, both clusters reference the same default
\* project, and storage never holds two project rows with the same cloud_id
\* and name.
C2_OneDefaultProject ==
    /\ \A v, w \in DefaultProjectCreates :
          req[v].user = req[w].user => RowOf(v).project_id = RowOf(w).project_id
    /\ \A p, q \in projects :
          (p.cloud_id = q.cloud_id /\ p.name = q.name) => p.id = q.id

\* C25: in a region with a user quota, after any interleaving of
\* create_cluster calls by one user for clusters that are not shared, the
\* user's usage over their non-deleted clusters in the region is within the
\* limit on every quota field that has one.
C25_QuotaNeverOvershot ==
    region.user_quota.set =>
        \A user \in ConcUsers : \A k \in Range(QuotaKeys) :
            region.user_quota.limits[k] # Null
            => get_user_quota_usage(region, user, clusters, projects)[k]
                  <= region.user_quota.limits[k]

\* C11: in every reachable state, after any interleaving of create_cluster
\* calls, no two clusters whose status is not DELETED have the same name.
C11_UniqueNames ==
    \A c, d \in clusters :
        (c.name = d.name /\ c.status # DELETED /\ d.status # DELETED) => c.id = d.id

-----------------------------------------------------------------------------
(* create_cluster_hosts, delete_cluster_hosts, reboot_hosts *)

\* auth_utils.route_require_admin: the handler runs for an admin only
route_require_admin(user) == UserTable[user].is_admin

RECURSIVE AddHosts(_, _, _)
\* one ClusterHost row per entry of the body, each added and flushed in turn
AddHosts(hrows, cluster_id, body) ==
    IF body = <<>> THEN hrows
    ELSE AddHosts(hrows \cup {[id |-> NextId(hrows), cluster_id |-> cluster_id,
                               fqdn |-> Head(body).fqdn]},
                  cluster_id, Tail(body))

create_cluster_hosts(cluster_id, body, user) ==
    LET answer == IF ~route_require_admin(user) THEN Problem(403, "admin required")
                  ELSE IF ~\E c \in clusters : c.id = cluster_id
                  THEN Problem(404, "cluster not found")
                  ELSE Passed
    IN  /\ last = NoResponse
        /\ NextId(hosts) + Len(body) - 1 <= MaxHosts
        /\ hosts' = IF answer.code = 200 THEN AddHosts(hosts, cluster_id, body)
                    ELSE hosts
        /\ last' = Response("create_hosts", user, cluster_id, {}, FALSE, answer, {})
        /\ UNCHANGED <<region, now, clusters, projects, events, notifications,
                       tower_jobs, deletions, servers, reboots, req>>

delete_cluster_hosts(cluster_id, user) ==
    LET answer == IF ~route_require_admin(user) THEN Problem(403, "admin required")
                  ELSE IF ~\E c \in clusters : c.id = cluster_id
                  THEN Problem(404, "cluster not found")
                  ELSE Passed
    IN  /\ last = NoResponse
        /\ hosts' = IF answer.code = 200
                    THEN {h \in hosts : h.cluster_id # cluster_id}
                    ELSE hosts
        /\ last' = Response("delete_hosts", user, cluster_id, {}, FALSE, answer, {})
        /\ UNCHANGED <<region, now, clusters, projects, events, notifications,
                       tower_jobs, deletions, servers, reboots, req>>

\* body.get('type', 'soft').upper()
upper(type) == IF type = "soft" THEN "SOFT" ELSE IF type = "hard" THEN "HARD" ELSE type
reboot_type(body) == upper(IF Has(body, "type") THEN body["type"] ELSE "soft")

\* the ids and the fqdns the items of body['hosts'] name
ItemValues(items, k) == {items[i][k] : i \in {j \in DOMAIN items : Has(items[j], k)}}

\* the host rows the request names: all the cluster's, or those of the cluster
\* whose id or fqdn an item gives
SelectedHosts(cluster_id, body, hrows) ==
    IF body["hosts"].all THEN {h \in hrows : h.cluster_id = cluster_id}
    ELSE {h \in hrows : /\ h.cluster_id = cluster_id
                        /\ \/ h.id \in ItemValues(body["hosts"].items, "id")
                           \/ h.fqdn \in ItemValues(body["hosts"].items, "fqdn")}

\* {host.fqdn: host for host in ...}: of the rows that share an fqdn the dict
\* keeps the one iterated last, and the rows come in no stated order
HostsToRebootChoices(selected) ==
    {d \in [{h.fqdn : h \in selected} -> selected] : \A q \in DOMAIN d : d[q].fqdn = q}

\* variant: a hostname the inventory reports again is passed over
Matching_Distinct(inventory, hosts_to_reboot) ==
    LET Seen(i) == {inventory[j] : j \in 1..(i - 1)}
        first == {i \in DOMAIN inventory :
                    /\ inventory[i] \in DOMAIN hosts_to_reboot
                    /\ inventory[i] \notin Seen(i)}
    IN  [n \in 1..Cardinality(first) |->
            inventory[CHOOSE i \in first : Cardinality({j \in first : j < i}) = n - 1]]

\* the servers of the inventory whose hostname is in hosts_to_reboot, in order
Matching(inventory, hosts_to_reboot) ==
    SelectSeq(inventory, LAMBDA hostname : hostname \in DOMAIN hosts_to_reboot)

\* the whole request; failed_at is the position in the inventory at which the
\* cloud client raises (Null when it does not): the servers before it are done
RebootRun(cluster_id, body, user, crows, prows, hrows, inventory, hosts_to_reboot, failed_at) ==
    LET seen == IF failed_at = Null THEN inventory
                ELSE SubSeq(inventory, 1, failed_at - 1)
        matching == Matching(seen, hosts_to_reboot)
        rebooted_hosts == [i \in DOMAIN matching |->
                              [id |-> hosts_to_reboot[matching[i]].id,
                               fqdn |-> hosts_to_reboot[matching[i]].fqdn]]
        Out(p, calls) == [problem |-> p, reboots |-> calls]
    IN  IF ~\E c \in crows : c.id = cluster_id
        THEN Out(Problem(404, "cluster not found"), <<>>)
        ELSE IF ~user_can_access_cluster(ClusterById(crows, cluster_id), prows, user)
        THEN Out(Problem(403, "cluster access"), <<>>)
        ELSE LET calls == [i \in DOMAIN matching |->
                              [hostname |-> matching[i], type |-> reboot_type(body)]]
             IN  IF failed_at # Null THEN Out(Problem(500, "reboot failed"), calls)
                 ELSE Out([Passed EXCEPT !.rebooted_hosts = rebooted_hosts], calls)

reboot_hosts(cluster_id, body, user, hosts_to_reboot, failed_at) ==
    LET run == RebootRun(cluster_id, body, user, clusters, projects, hosts, servers,
                         hosts_to_reboot, failed_at)
    IN  /\ last = NoResponse
        /\ reboots' = run.reboots
        /\ last' = Response("reboot", user, cluster_id, DOMAIN body, FALSE,
                            run.problem, {})
        /\ UNCHANGED <<region, now, clusters, projects, events, notifications,
                       tower_jobs, deletions, hosts, servers, req>>

\* the cloud: servers come and go, and two servers may bear one hostname
inventory_changes(inventory) ==
    /\ last = NoResponse
    /\ inventory # servers
    /\ servers' = inventory
    /\ UNCHANGED <<region, now, clusters, projects, events, notifications,
                   tower_jobs, deletions, hosts, reboots, req, last>>

-----------------------------------------------------------------------------
(* The reboot specification: the hosts of two clusters, the cloud inventory   *)
(* and the reboot requests                                                   *)

Hostnames == {"h1", "h2"}

\* the hostnames a server may bear: those of the hosts and one of no host
ServerNames == Hostnames \cup {"x"}

Inventories == UNION {[1..n -> ServerNames] : n \in 0..MaxServers}

\* a project of the user and a project of the shared-cluster group
RebootProjects ==
    {[id |-> 1, cloud_id |-> CloudId, name |-> DefaultProjectName(5), owner_id |-> 5,
      group_id |-> Null],
     [id |-> 2, cloud_id |-> CloudId, name |-> DefaultProjectName(1), owner_id |-> 1,
      group_id |-> SharedClusterGroupId]}

RebootClusters ==
    {[FromDict(("name" :> <<"c", id>>) @@ ("region_id" :> RegionId)
                  @@ ("product_id" :> 1) @@ ("project_id" :> id) @@ ("created" :> 0)
                  @@ ("lifespan_expiration" :> Null)
                  @@ ("reservation_expiration" :> Null)
                  @@ ("product_params" :> ProductTable[1].parameters_defaults), id)
        EXCEPT !.status = ACTIVE] : id \in {1, 2}}

HostBodies ==
    {<<[fqdn |-> f]>> : f \in Hostnames}
    \cup {<<[fqdn |-> "h1"], [fqdn |-> f]>> : f \in Hostnames}

HostItems == {<<>>, <<"id" :> 1>>, <<"fqdn" :> "h2">>, <<"id" :> 2, "fqdn" :> "h1">>}

RebootBodies ==
    {("hosts" :> [all |-> TRUE, items |-> <<>>]) @@ ty : ty \in Dict("type", {"hard"})}
    \cup {"hosts" :> [all |-> FALSE, items |-> items] : items \in HostItems}

\* the calls made: every request on either cluster by an admin, the reboot of
\* all hosts by the owner of the first cluster and by a member of the
\* shared-cluster group, and one request for a cluster that does not exist
RebootCalls ==
    {<<c, b, 1>> : c \in {1, 2}, b \in RebootBodies}
    \cup {<<c, "hosts" :> [all |-> TRUE, items |-> <<>>], u>> : c \in {1, 2}, u \in {4, 5}}
    \cup {<<3, "hosts" :> [all |-> TRUE, items |-> <<>>], 1>>}

InitReboot ==
    /\ region = RegionRow(TRUE, Null, TRUE, FALSE, Null, NoQuota)
    /\ now = 0
    /\ clusters = RebootClusters
    /\ projects = RebootProjects
    /\ events = <<>>
    /\ notifications = <<>>
    /\ tower_jobs = 0
    /\ deletions = {}
    /\ hosts = {}
    /\ servers = <<>>
    /\ reboots = <<>>
    /\ req = <<>>
    /\ last = NoResponse

CreateHosts ==
    /\ last = NoResponse
    /\ \E call \in ({1, 2} \X HostBodies \X {1}) \cup {<<1, <<[fqdn |-> "h1"]>>, 5>>,
                                                       <<3, <<[fqdn |-> "h1"]>>, 1>>} :
           create_cluster_hosts(call[1], call[2], call[3])

DeleteHosts ==
    /\ last = NoResponse
    /\ \E call \in {<<1, 1>>, <<2, 1>>, <<1, 5>>, <<3, 1>>} :
           delete_cluster_hosts(call[1], call[2])

Reboot ==
    /\ last = NoResponse
    /\ \E call \in RebootCalls, failed_at \in {Null} \cup 1..(Len(servers) + 1) :
           \E hosts_to_reboot \in HostsToRebootChoices(SelectedHosts(call[1], call[2], hosts)) :
               reboot_hosts(call[1], call[2], call[3], hosts_to_reboot, failed_at)

InventoryChanges ==
    /\ last = NoResponse
    /\ \E inventory \in Inventories : inventory_changes(inventory)

NextReboot == CreateHosts \/ DeleteHosts \/ Reboot \/ InventoryChanges \/ Return

SpecReboot == InitReboot /\ [][NextReboot]_vars

-----------------------------------------------------------------------------
(* Properties of the reboot specification *)

\* the hosts of the cluster that the request targets
Targeted(cluster_id, body) ==
    LET items == body["hosts"].items
    IN  {h \in hosts :
            /\ h.cluster_id = cluster_id
            /\ \/ body["hosts"].all
               \/ \E i \in DOMAIN items :
                     \/ Has(items[i], "id") /\ items[i]["id"] = h.id
                     \/ Has(items[i], "fqdn") /\ items[i]["fqdn"] = h.fqdn}

\* the targeted hosts whose fqdn the inventory reports
Present(cluster_id, body) ==
    {h \in Targeted(cluster_id, body) : h.fqdn \in Range(servers)}

\* how many entries of the sequence have the value v in the field k
Count(seq, k, v) == Cardinality({i \in DOMAIN seq : seq[i][k] = v})

\* how many servers of the inventory bear the hostname
Reported(hostname) == Cardinality({i \in DOMAIN servers : servers[i] = hostname})

\* the reboot requests of principals with access to an existing cluster
AccessCalls ==
    {call \in RebootCalls :
        /\ Exists(clusters, call[1])
        /\ user_can_access_cluster(ClusterById(clusters, call[1]), projects, call[3])}

\* C10 as stated: reboot_hosts reboots and returns exactly the targeted hosts
\* whose fqdn the inventory reports, each rebooted once and listed once; the
\* others are skipped without error and no other server is rebooted.
C10_EachHostOnce ==
    \A call \in AccessCalls :
        \A d \in HostsToRebootChoices(SelectedHosts(call[1], call[2], hosts)) :
            LET run == RebootRun(call[1], call[2], call[3], clusters, projects, hosts,
                                 servers, d, Null)
                listed == run.problem.rebooted_hosts
            IN  /\ run.problem.code = 200
                /\ \A h \in Present(call[1], call[2]) :
                      /\ Count(listed, "id", h.id) = 1
                      /\ Count(run.reboots, "hostname", h.fqdn) = 1
                /\ \A i \in DOMAIN listed :
                      \E h \in Present(call[1], call[2]) : listed[i].id = h.id
                /\ \A i \in DOMAIN run.reboots :
                      \E h \in Present(call[1], call[2]) :
                          run.reboots[i].hostname = h.fqdn

\* C10 amended: when the cloud client raises no error, reboot_hosts answers with
\* success, sends one reboot to each server of the inventory whose hostname is
\* the fqdn of a targeted host and none to any other server, and lists one
\* entry per rebooted server, in the order of the inventory, each naming a
\* targeted host with the server's hostname; targeted hosts the inventory does
\* not report are skipped. A host whose fqdn the inventory reports once and no
\* other targeted host bears is rebooted once and listed once. When the cloud
\* client raises, the answer is an error and only servers bearing the fqdn of
\* a targeted host have been rebooted. The reboots made and the hosts listed
\* by the request just answered agree with each other and with the rows.
C10_OncePerServer ==
    /\ \A call \in AccessCalls :
        \A d \in HostsToRebootChoices(SelectedHosts(call[1], call[2], hosts)) :
            LET run == RebootRun(call[1], call[2], call[3], clusters, projects, hosts,
                                 servers, d, Null)
                listed == run.problem.rebooted_hosts
                fqdns == {h.fqdn : h \in Targeted(call[1], call[2])}
            IN  /\ run.problem.code = 200
                /\ \A f \in ServerNames :
                      LET n == IF f \in fqdns
                               THEN Reported(f)
                               ELSE 0
                      IN  /\ Count(run.reboots, "hostname", f) = n
                          /\ Count(listed, "fqdn", f) = n
                /\ Len(listed) = Len(run.reboots)
                /\ \A i \in DOMAIN listed :
                      /\ listed[i].fqdn = run.reboots[i].hostname
                      /\ \E h \in Targeted(call[1], call[2]) :
                            h.id = listed[i].id /\ h.fqdn = listed[i].fqdn
                /\ \A h \in Present(call[1], call[2]) :
                      (/\ Reported(h.fqdn) = 1
                       /\ \A g \in Targeted(call[1], call[2]) :
                             g.fqdn = h.fqdn => g = h)
                      => /\ Count(listed, "id", h.id) = 1
                         /\ Count(run.reboots, "hostname", h.fqdn) = 1
                /\ \A failed_at \in 1..(Len(servers) + 1) :
                      LET failed == RebootRun(call[1], call[2], call[3], clusters,
                                              projects, hosts, servers, d, failed_at)
                      IN  /\ failed.problem.code = 500
                          /\ \A i \in DOMAIN failed.reboots :
                                failed.reboots[i].hostname \in fqdns
    /\ (last.op = "reboot" /\ last.code = 200)
       => /\ Len(reboots) = Len(last.rebooted_hosts)
          /\ \A i \in DOMAIN reboots :
                /\ reboots[i].hostname = last.rebooted_hosts[i].fqdn
                /\ reboots[i].hostname \in Range(servers)
                /\ \E h \in hosts : /\ h.cluster_id = last.cluster_id
                                    /\ h.id = last.rebooted_hosts[i].id
                                    /\ h.fqdn = last.rebooted_hosts[i].fqdn

\* all the hosts of a cluster of two were asked for; the inventory reports one
\* of them and a server that is no host: one reboot, one host listed
C10_Witness ==
    /\ last.op = "reboot"
    /\ last.code = 200
    /\ Cardinality({h \in hosts : h.cluster_id = last.cluster_id}) = 2
    /\ Cardinality({h.fqdn : h \in hosts}) = 2
    /\ Len(servers) = 2
    /\ "x" \in Range(servers)
    /\ Len(reboots) = 1
    /\ Len(last.rebooted_hosts) = 1

====
